---- MODULE Spec2Model ----
(***************************************************************************)
(* Model of the command-driven game engine (game_engine/engine.py), its    *)
(* command parser (game_engine/command_parser.py) and the events it        *)
(* publishes (game_engine/event_manager.py).                               *)
(*                                                                         *)
(* Strings are TLA+ strings; lower-casing, whitespace splitting and the    *)
(* substring test of the handlers are computed character by character.     *)
(***************************************************************************)
EXTENDS Integers, Sequences, FiniteSets, TLC

\* ------------------------------------------------------------------------
\* Bounds of the model
\* ------------------------------------------------------------------------

\* number of process_command calls in a behaviour of Spec
MaxSteps == 5

\* number of process_command calls in a behaviour of SpecLair
MaxLairSteps == 5

\* number of process_command calls in a behaviour of SpecDuel
MaxDuelSteps == 14

\* number of process_command calls in a behaviour of SpecStand
MaxStandSteps == 3

\* number of process_command calls in a behaviour of SpecBrink
MaxBrinkSteps == 3

\* calls of the event manager and commands in a behaviour of SpecBus
MaxBusSteps == 4
MaxHandlerSteps == 4
MaxSaveSteps == 5
MaxPlayerSteps == 4

\* ------------------------------------------------------------------------
\* String helpers (Python str.lower, str.strip + str.split, " ".join, in)
\* ------------------------------------------------------------------------

UpperLetters == "ABCDEFGHIJKLMNOPQRSTUVWXYZ"

LowerLetters == "abcdefghijklmnopqrstuvwxyz"

\* str.lower() on one character
LowerCh(c) ==
    IF \E i \in 1..26 : SubSeq(UpperLetters, i, i) = c
    THEN LET i == CHOOSE k \in 1..26 : SubSeq(UpperLetters, k, k) = c
         IN  SubSeq(LowerLetters, i, i)
    ELSE c

RECURSIVE LowerStr(_)
\* str.lower()
LowerStr(s) ==
    IF Len(s) = 0 THEN ""
    ELSE LowerCh(SubSeq(s, 1, 1)) \o LowerStr(SubSeq(s, 2, Len(s)))

\* whitespace characters occurring in the inputs
IsSpace(c) == c = " "

RECURSIVE SplitFrom(_, _, _)
\* str.split(): tokens of s separated by runs of whitespace; cur is the
\* token being read, acc the tokens already completed
SplitFrom(s, cur, acc) ==
    IF Len(s) = 0
    THEN IF Len(cur) = 0 THEN acc ELSE Append(acc, cur)
    ELSE LET c == SubSeq(s, 1, 1)
             rest == SubSeq(s, 2, Len(s))
         IN  IF IsSpace(c)
             THEN IF Len(cur) = 0 THEN SplitFrom(rest, "", acc)
                  ELSE SplitFrom(rest, "", Append(acc, cur))
             ELSE SplitFrom(rest, cur \o c, acc)

Split(s) == SplitFrom(s, "", <<>>)

RECURSIVE Join(_)
\* " ".join(args)
Join(args) ==
    IF Len(args) = 0 THEN ""
    ELSE IF Len(args) = 1 THEN args[1]
    ELSE args[1] \o " " \o Join(Tail(args))

\* Python's  s in t  on strings
IsSubstr(s, t) ==
    \E i \in 0..(Len(t) - Len(s)) : SubSeq(t, i + 1, i + Len(s)) = s

\* list.pop(i) / the list after removing position i
RemoveAt(seq, i) == SubSeq(seq, 1, i - 1) \o SubSeq(seq, i + 1, Len(seq))

\* ------------------------------------------------------------------------
\* Command parser
\* ------------------------------------------------------------------------

\* CommandParser.COMMANDS: command name -> expected argument names
COMMANDS ==
    [move |-> <<"direction">>, look |-> <<>>, take |-> <<"item_name">>,
     drop |-> <<"item_name">>, use |-> <<"item_name">>, inventory |-> <<>>,
     i |-> <<>>, stats |-> <<>>, s |-> <<>>, attack |-> <<"target">>,
     help |-> <<>>, save |-> <<>>, load |-> <<>>]

\* an alias table that lacks s
ALIASES_without_s == [i |-> "inventory"]

\* CommandParser.ALIASES
ALIASES == [i |-> "inventory", s |-> "stats"]

\* a direction list that lacks west
VALID_DIRECTIONS_no_west == <<"north", "south", "east", "up", "down">>

VALID_DIRECTIONS == <<"north", "south", "east", "west", "up", "down">>

\* ParsedCommand(command, args, raw)
ParsedCommand(command, args, raw) ==
    [command |-> command, args |-> args, raw |-> raw]

\* CommandParser.parse
parse(input_string) ==
    LET parts == Split(LowerStr(input_string))
    IN  IF Len(parts) = 0
        THEN ParsedCommand("", <<>>, input_string)
        ELSE LET command == parts[1]
             IN  ParsedCommand(IF command \in DOMAIN ALIASES
                                 THEN ALIASES[command] ELSE command,
                               Tail(parts), input_string)

\* a validate_command that tests the direction of a move before it counts
\* the arguments
validate_command_direction_first(parsed) ==
    LET command == parsed.command
    IN  IF command # "" /\ command \notin DOMAIN COMMANDS
        THEN "unknown_command"
        ELSE IF command = ""
        THEN "empty_command"
        ELSE IF command = "move"
                /\ (LET direction == IF Len(parsed.args) > 0
                                      THEN parsed.args[1] ELSE ""
                    IN  \A k \in 1..Len(VALID_DIRECTIONS) :
                            VALID_DIRECTIONS[k] # direction)
        THEN "invalid_direction"
        ELSE IF Len(parsed.args) < Len(COMMANDS[command])
        THEN "missing_argument:" \o COMMANDS[command][Len(parsed.args) + 1]
        ELSE "ok"

\* CommandParser.validate_command: the error it reports, "ok" when valid; a
\* missing argument is reported with the name of the slot, arg_name
validate_command(parsed) ==
    LET command == parsed.command
    IN  IF command # "" /\ command \notin DOMAIN COMMANDS
        THEN "unknown_command"
        ELSE IF command = ""
        THEN "empty_command"
        ELSE LET expected_args == COMMANDS[command]
        IN   IF Len(parsed.args) < Len(expected_args)
        THEN IF expected_args # <<>>
             THEN "missing_argument:" \o expected_args[Len(parsed.args) + 1]
             ELSE "takes_no_arguments"
        ELSE IF command = "move"
                /\ (LET direction == IF Len(parsed.args) > 0
                                      THEN parsed.args[1] ELSE ""
                    IN  \A k \in 1..Len(VALID_DIRECTIONS) :
                            VALID_DIRECTIONS[k] # direction)
        THEN "invalid_direction"
        ELSE "ok"

\* The raw command strings the player sends
RawInputs ==
    {"", "  ", "dance", "move", "move north", "MOVE North", "move south",
     "move east", "move west", "move up", "move sideways",
     "look", "inventory", "i", "stats", "s", "help", "help move",
     "save", "load",
     "take", "take iron sword", "take  Sword", "take o", "take n_s",
     "take potion", "take r", "take coin", "take xyzzy",
     "drop", "drop o", "drop sword", "drop potion", "drop xyzzy",
     "use", "use o", "use potion", "use sword", "use coin", "use xyzzy",
     "attack", "attack wolf", "attack o", "attack skeleton", "attack dragon",
     "attack troll"}

\* parse and validate_command of every raw input
Parsed == [r \in RawInputs |-> parse(r)]

Validated == [r \in RawInputs |-> validate_command(Parsed[r])]

\* the keys of the handlers dictionary of process_command
handlers ==
    {"move", "look", "take", "drop", "use", "inventory", "stats", "attack",
     "help", "save", "load"}

\* the raw inputs that validate and are routed to the handler of command c
Routed(c) ==
    {r \in RawInputs :
        Validated[r] = "ok" /\ Parsed[r].command = c /\ c \in handlers}

\* the raw inputs that validate to a name handlers.get finds no handler for
Unhandled ==
    {r \in RawInputs : Validated[r] = "ok" /\ Parsed[r].command \notin handlers}

\* the routing of every command name of the registry
RoutingTable == [c \in DOMAIN COMMANDS |-> Routed(c)]

RoutedTo(c) == RoutingTable[c]

\* ------------------------------------------------------------------------
\* Entity model
\* ------------------------------------------------------------------------

\* attributes an Entity object carries: the identity is stored as entity_id
\* (read as item.entity_id / location.entity_id by every caller), with the
\* name and the description
EntityAttrs == {"entity_id", "name", "description"}

\* attributes of a Location object: those of Entity and its own
LocationAttrs == EntityAttrs \cup {"exits", "items", "enemies", "is_locked"}

\* Character.max_health, the class attribute a new Character starts with
ClassMaxHealth == 100

NoEffect == [k \in {} |-> 0]

\* Item(id, name, description, item_type, value, effect, can_equip)
Item(name, item_type, value, effect, can_equip) ==
    [name |-> name, item_type |-> item_type, value |-> value,
     effect |-> effect, can_equip |-> can_equip]

\* GameEngine._create_items: the item catalog, keyed by entity_id
items_db ==
    [iron_sword      |-> Item("Iron Sword", "weapon", 10, [attack |-> 5], TRUE),
     magic_staff     |-> Item("Magic Staff", "weapon", 50, [attack |-> 15], TRUE),
     wooden_shield   |-> Item("Wooden Shield", "shield", 5, [defense |-> 3], TRUE),
     health_potion   |-> Item("Health Potion", "potion", 10, [heal |-> 30], FALSE),
     mana_potion     |-> Item("Mana Potion", "potion", 10, [mana |-> 25], FALSE),
     strength_potion |-> Item("Strength Potion", "potion", 25,
                              [strength_boost |-> 5], FALSE),
     gold_coin       |-> Item("Gold Coin", "treasure", 1, NoEffect, FALSE),
     ruby            |-> Item("Ruby", "treasure", 100, NoEffect, FALSE),
     ancient_scroll  |-> Item("Ancient Scroll", "treasure", 50, NoEffect, FALSE)]

ItemIds == DOMAIN items_db

\* an enemy dictionary {"id", "name", "health", "damage"}
Enemy(id, name, hp, damage) ==
    [id |-> id, name |-> name, health |-> hp, damage |-> damage]

\* Location(id, name, description, exits, items, enemies, is_locked)
Location(name, exits, items, enemies, is_locked) ==
    [name |-> name, exits |-> exits, items |-> items, enemies |-> enemies,
     is_locked |-> is_locked]

\* a world whose cave has no way back to the village
OneWayDefinition ==
    [start |->
        Location("Forest Clearing", [north |-> "forest", east |-> "village"],
                 <<"iron_sword", "wooden_shield">>, <<>>, FALSE),
     forest |->
        Location("Dark Forest", [south |-> "start", north |-> "dungeon"],
                 <<"health_potion", "strength_potion">>,
                 <<Enemy("wolf", "Wolf", 30, 10)>>, FALSE),
     village |->
        Location("Village", [west |-> "start", north |-> "cave"],
                 <<"mana_potion", "gold_coin">>, <<>>, FALSE),
     dungeon |->
        Location("Dark Dungeon", [south |-> "forest", east |-> "treasure_room"],
                 <<"magic_staff", "ruby">>,
                 <<Enemy("goblin", "Goblin", 40, 15),
                   Enemy("skeleton", "Skeleton", 35, 12)>>, FALSE),
     cave |->
        Location("Mysterious Cave", [north |-> "village"],
                 <<"ancient_scroll", "health_potion">>, <<>>, FALSE),
     treasure_room |->
        Location("Treasure Room", [west |-> "dungeon"],
                 <<"gold_coin", "ruby", "ruby">>,
                 <<Enemy("dragon", "Dragon", 100, 25)>>, FALSE)]

\* the Location objects GameEngine._create_locations constructs, by id
WorldDefinition ==
    [start |->
        Location("Forest Clearing", [north |-> "forest", east |-> "village"],
                 <<"iron_sword", "wooden_shield">>, <<>>, FALSE),
     forest |->
        Location("Dark Forest", [south |-> "start", north |-> "dungeon"],
                 <<"health_potion", "strength_potion">>,
                 <<Enemy("wolf", "Wolf", 30, 10)>>, FALSE),
     village |->
        Location("Village", [west |-> "start", north |-> "cave"],
                 <<"mana_potion", "gold_coin">>, <<>>, FALSE),
     dungeon |->
        Location("Dark Dungeon", [south |-> "forest", east |-> "treasure_room"],
                 <<"magic_staff", "ruby">>,
                 <<Enemy("goblin", "Goblin", 40, 15),
                   Enemy("skeleton", "Skeleton", 35, 12)>>, FALSE),
     cave |->
        Location("Mysterious Cave", [south |-> "village"],
                 <<"ancient_scroll", "health_potion">>, <<>>, FALSE),
     treasure_room |->
        Location("Treasure Room", [west |-> "dungeon"],
                 <<"gold_coin", "ruby", "ruby">>,
                 <<Enemy("dragon", "Dragon", 100, 25)>>, FALSE)]

\* the world definition with one more exit, from the cave down to a location
\* that is not defined
DanglingDefinition ==
    [WorldDefinition EXCEPT
        !.cave.exits = [south |-> "village", down |-> "abyss"]]

WorldDefinitions == {WorldDefinition, DanglingDefinition}

\* the exits of a world definition whose target is not a location of it
DanglingExits(definition) ==
    UNION {{<<l, d>> : d \in {x \in DOMAIN definition[l].exits :
                                 definition[l].exits[x] \notin DOMAIN definition}}
             : l \in DOMAIN definition}

\* the end of GameEngine._create_locations, self.world = {...}: every
\* location is stored under its id; no exit is looked at, nothing is raised
create_locations(definition) ==
    [raised |-> FALSE,
     world |-> [id \in DOMAIN definition |-> definition[id]]]

\* self.world after GameEngine._create_locations
world == create_locations(WorldDefinition).world

LocationIds == DOMAIN world

\* ------------------------------------------------------------------------
\* State
\* ------------------------------------------------------------------------

VARIABLES
    initialized,        \* game_state is not None
    health, max_health, mana, strength, level, experience,   \* the player
    current_location,   \* id of game_state.current_location
    inventory,          \* game_state.inventory, as item ids
    game_status,
    visited_locations,
    loc_items,          \* items list of every location of self.world
    loc_enemies,        \* enemies list of every location of self.world
    events,             \* events published by the last call, in order
    cmd,                \* the ParsedCommand of the last process_command
    result,             \* what the last process_command returned
    steps_left,         \* calls the behaviour may still make
    subscribers,        \* event_manager._events: event type -> callbacks
    bus_call,           \* the last call of the event manager, with what it
                        \* returned
    current_state,      \* GameStateRepository._current_state
    saved_games,        \* GameStateRepository._saved_games: name -> state
    lists,              \* the list objects that the inventory fields of the
                        \* GameStateData objects refer to, by reference
    saved_values,       \* for every save name, the value the current state
                        \* had when save_game last stored it
    storage,            \* PlayerRepository._storage: id -> Character
    repo_call           \* the last call of a repository, with what it
                        \* returned

playerVars == <<health, max_health, mana, strength, level, experience>>

stateVars == <<playerVars, current_location, inventory, game_status,
               visited_locations>>

worldVars == <<loc_items, loc_enemies>>

busVars == <<subscribers, bus_call>>

repoVars == <<current_state, saved_games, lists, saved_values, storage,
              repo_call>>

vars == <<initialized, stateVars, worldVars, events, cmd, result, steps_left,
          busVars, repoVars>>

\* GameEvent(type, data)
GameEvent(type, data) == [type |-> type, data |-> data]

\* a returned dictionary {"success", "message"}; message is the kind of text
Result(success, message) ==
    [raised |-> FALSE, success |-> success, message |-> message]

\* the call ended in an uncaught exception instead of returning
Raised(exception) ==
    [raised |-> TRUE, success |-> FALSE, message |-> exception]

\* the dictionary handle_attack returns after a hit: {"success", "message",
\* "data": {"enemy_health": target_enemy.get("health", 0)}}
AttackResult(success, message, enemy_health) ==
    [raised |-> FALSE, success |-> success, message |-> message,
     data |-> [enemy_health |-> enemy_health]]

NoResult == [raised |-> FALSE, success |-> FALSE, message |-> "no_call"]

NoCommand == ParsedCommand("", <<>>, "")

\* ------------------------------------------------------------------------
\* EventManager
\* ------------------------------------------------------------------------

\* the callbacks GameEngine._setup_event_listeners subscribes, by event type
EngineListeners ==
    [player_moved |-> "_on_player_moved",
     item_picked_up |-> "_on_item_picked_up",
     item_dropped |-> "_on_item_dropped",
     combat_started |-> "_on_combat_started",
     combat_ended |-> "_on_combat_ended"]

\* the callbacks: the engine's own, which print a line, an observer that
\* returns normally and an observer that raises an Exception
Callbacks ==
    {EngineListeners[t] : t \in DOMAIN EngineListeners}
    \cup {"listener", "faulty_listener"}
    \cup {"one_shot", "remover", "recruiter"}

\* callback(event): how the call ends
Call(callback, event) ==
    IF callback = "faulty_listener" THEN "Exception" ELSE "returned"

\* callback in list
InList(callback, list) == \E k \in 1..Len(list) : list[k] = callback

\* the position of the first occurrence of the callback in the list
IndexOf(callback, list) ==
    CHOOSE k \in 1..Len(list) :
        list[k] = callback /\ \A j \in 1..(k - 1) : list[j] # callback

\* the dictionary without keys, {}
EmptyDict == [t \in {} |-> <<>>]

\* self._events[event_type] = list
SetKey(d, event_type, list) ==
    [t \in DOMAIN d \cup {event_type} |->
        IF t = event_type THEN list ELSE d[t]]

\* a subscribe that does not look for the callback in the list
subscribe_again(d, event_type, callback) ==
    LET d1 == IF event_type \notin DOMAIN d
              THEN SetKey(d, event_type, <<>>) ELSE d
    IN  [events |-> SetKey(d1, event_type, Append(d1[event_type], callback)),
         returned |-> TRUE]

\* a subscribe that puts the callback in front of the list
subscribe_in_front(d, event_type, callback) ==
    LET d1 == IF event_type \notin DOMAIN d
              THEN SetKey(d, event_type, <<>>) ELSE d
    IN  IF ~InList(callback, d1[event_type])
        THEN [events |-> SetKey(d1, event_type,
                                <<callback>> \o d1[event_type]),
              returned |-> TRUE]
        ELSE [events |-> d1, returned |-> FALSE]

\* EventManager.subscribe on the dictionary d: the new dictionary and the
\* value returned
subscribe(d, event_type, callback) ==
    LET d1 == IF event_type \notin DOMAIN d
              THEN SetKey(d, event_type, <<>>) ELSE d
    IN  IF ~InList(callback, d1[event_type])
        THEN [events |-> SetKey(d1, event_type,
                                Append(d1[event_type], callback)),
              returned |-> TRUE]
        ELSE [events |-> d1, returned |-> FALSE]

\* EventManager.unsubscribe; list.remove takes the first occurrence away
unsubscribe(d, event_type, callback) ==
    IF event_type \in DOMAIN d /\ InList(callback, d[event_type])
    THEN [events |-> SetKey(d, event_type,
                            RemoveAt(d[event_type],
                                     IndexOf(callback, d[event_type]))),
          returned |-> TRUE]
    ELSE [events |-> d, returned |-> FALSE]

\* no event type given
None == "None"

\* EventManager.clear_subscribers; an empty or missing event type clears
\* the whole dictionary
clear_subscribers(d, event_type) ==
    IF event_type # None /\ event_type # ""
    THEN IF event_type \in DOMAIN d THEN SetKey(d, event_type, <<>>) ELSE d
    ELSE EmptyDict

\* the loop of publish from position k on when no exception is caught: the
\* first failing callback ends it
\* the dictionary after callback(event) ran: one_shot unsubscribes itself
\* from the event's type, remover unsubscribes listener from it, recruiter
\* subscribes listener to it; every other callback leaves the bus alone
CallEffect(callback, event, d) ==
    IF callback = "one_shot"
    THEN unsubscribe(d, event.type, "one_shot").events
    ELSE IF callback = "remover"
    THEN unsubscribe(d, event.type, "listener").events
    ELSE IF callback = "recruiter"
    THEN subscribe(d, event.type, "listener").events
    ELSE d

RECURSIVE Notify_uncaught(_, _, _, _)
Notify_uncaught(d, event, k, invoked) ==
    LET callbacks == d[event.type]
    IN  IF k > Len(callbacks)
        THEN [invoked |-> invoked, raised |-> FALSE, events |-> d]
        ELSE IF Call(callbacks[k], event) = "Exception"
             THEN [invoked |-> Append(invoked, callbacks[k]), raised |-> TRUE,
                   events |-> d]
             ELSE Notify_uncaught(CallEffect(callbacks[k], event, d), event,
                                  k + 1, Append(invoked, callbacks[k]))

\* the loop of publish from position k on, over the list the dictionary d
\* holds for the event's type at each turn (the for statement reads the
\* list object itself, which subscribe and unsubscribe change in place):
\* the callbacks invoked, in order, whether an exception leaves the loop,
\* and the dictionary the callbacks leave behind
RECURSIVE Notify(_, _, _, _)
Notify(d, event, k, invoked) ==
    LET callbacks == d[event.type]
    IN  IF k > Len(callbacks)
        THEN [invoked |-> invoked, raised |-> FALSE, events |-> d]
        ELSE IF Call(callbacks[k], event) = "Exception"
             \* except Exception: the error is printed and the loop goes on
             THEN Notify(d, event, k + 1, Append(invoked, callbacks[k]))
             ELSE Notify(CallEffect(callbacks[k], event, d), event, k + 1,
                         Append(invoked, callbacks[k]))

\* a publish without the try/except around the callback
publish_uncaught(d, event_type, data) ==
    LET event == GameEvent(event_type, data)
        out == IF event_type \in DOMAIN d
               THEN Notify_uncaught(d, event, 1, <<>>)
               ELSE [invoked |-> <<>>, raised |-> FALSE, events |-> d]
    IN  [event |-> event, invoked |-> out.invoked, raised |-> out.raised,
         events |-> out.events]

\* EventManager.publish on the dictionary d: the event, the callbacks
\* invoked, in order, whether an exception reaches the caller, and the
\* dictionary after the call
publish(d, event_type, data) ==
    LET event == GameEvent(event_type, data)
        out == IF event_type \in DOMAIN d
               THEN Notify(d, event, 1, <<>>)
               ELSE [invoked |-> <<>>, raised |-> FALSE, events |-> d]
    IN  [event |-> event, invoked |-> out.invoked, raised |-> out.raised,
         events |-> out.events]

\* GameEngine._setup_event_listeners: the dictionary after the five
\* subscriptions of the constructor
setup_event_listeners ==
    LET d0 == EmptyDict
        d1 == subscribe(d0, "player_moved", "_on_player_moved").events
        d2 == subscribe(d1, "item_picked_up", "_on_item_picked_up").events
        d3 == subscribe(d2, "item_dropped", "_on_item_dropped").events
        d4 == subscribe(d3, "combat_started", "_on_combat_started").events
    IN  subscribe(d4, "combat_ended", "_on_combat_ended").events

\* a call of the event manager: the method, its arguments, what it returned
BusCall(op, event_type, callback, returned) ==
    [op |-> op, event_type |-> event_type, callback |-> callback,
     returned |-> returned]

NoCall == BusCall("none", None, None, None)

\* the step is not a call of the event manager from outside the engine
NoBusCall == bus_call' = NoCall /\ UNCHANGED subscribers

\* ---- the repositories ----

\* GameStateData(player_id, current_location_id, inventory, game_status,
\* visited_locations); the inventory field holds a reference to a list
GameStateData(player_id, location_id, inventory_ref, status, visited) ==
    [player_id |-> player_id, current_location_id |-> location_id,
     inventory |-> inventory_ref, game_status |-> status,
     visited_locations |-> visited]

\* Character(id, name, description, health, mana, strength, level,
\* experience); max_health is the class variable
PlayerCharacter(name, h, m, str, lvl, exp) ==
    [name |-> name, health |-> h, mana |-> m, strength |-> str,
     level |-> lvl, experience |-> exp]

\* f"player_{n}"
PlayerId(n) == "player_" \o ToString(n)

\* PlayerRepository._create_default_player on an empty storage
create_default_player ==
    SetKey(EmptyDict, "player_1", PlayerCharacter("Hero", 100, 50, 10, 1, 0))

\* None where a GameStateData object is expected
NoState == [none |-> TRUE]

\* a repository call and what it returned
RepoCall(op, arg, returned) == [op |-> op, arg |-> arg, returned |-> returned]

NoRepoCall == RepoCall("none", None, None)

\* GameStateRepository.__init__ and PlayerRepository.__init__
RepositoriesConstructed ==
    /\ current_state = NoState
    /\ saved_games = EmptyDict
    /\ lists = <<>>
    /\ saved_values = EmptyDict
    /\ storage = create_default_player
    /\ repo_call = NoRepoCall

\* the engine and the event manager do not call the repositories
NoRepositoryCall == UNCHANGED repoVars

\* what a handler returns after it published the events evs: its result,
\* unless an exception left one of the publish calls
Completed(res, evs) ==
    IF \E k \in 1..Len(evs) :
           publish(subscribers, evs[k].type, evs[k].data).raised
    THEN Raised("Exception")
    ELSE res

\* GameEngine.__init__: no game state and an empty world
Constructed ==
    /\ initialized = FALSE
    /\ health = 0 /\ max_health = ClassMaxHealth /\ mana = 0 /\ strength = 0
    /\ level = 0 /\ experience = 0
    /\ current_location = "start"
    /\ inventory = <<>>
    /\ game_status = "playing"
    /\ visited_locations = {}
    /\ loc_items = [l \in LocationIds |-> <<>>]
    /\ loc_enemies = [l \in LocationIds |-> <<>>]
    /\ events = <<>>
    /\ cmd = NoCommand
    /\ result = NoResult
    /\ subscribers = setup_event_listeners
    /\ bus_call = NoCall
    /\ RepositoriesConstructed

Init == Constructed /\ steps_left = MaxSteps

\* an initialize_world whose new player keeps the maximum health that the
\* level-ups of the last session left behind
initialize_world_keeps_max_health ==
    /\ initialized' = TRUE
    /\ health' = 100 /\ max_health' = max_health /\ mana' = 50
    /\ strength' = 10 /\ level' = 1 /\ experience' = 0
    /\ current_location' = "start"
    /\ inventory' = <<>>
    /\ game_status' = "playing"
    /\ visited_locations' = {"start"}
    /\ loc_items' = [l \in LocationIds |-> world[l].items]
    /\ loc_enemies' = [l \in LocationIds |-> world[l].enemies]
    /\ events' = <<GameEvent("game_started", [player |-> "Hero"])>>
    /\ cmd' = NoCommand
    /\ result' = NoResult
    /\ NoBusCall
    /\ NoRepositoryCall
    /\ UNCHANGED steps_left

\* GameEngine.initialize_world
initialize_world ==
    /\ initialized' = TRUE
    /\ health' = 100 /\ max_health' = ClassMaxHealth /\ mana' = 50
    /\ strength' = 10 /\ level' = 1 /\ experience' = 0
    /\ current_location' = "start"
    /\ inventory' = <<>>
    /\ game_status' = "playing"
    /\ visited_locations' = {"start"}
    /\ loc_items' = [l \in LocationIds |-> world[l].items]
    /\ loc_enemies' = [l \in LocationIds |-> world[l].enemies]
    /\ events' = <<GameEvent("game_started", [player |-> "Hero"])>>
    /\ cmd' = NoCommand
    /\ result' = NoResult
    /\ NoBusCall
    /\ NoRepositoryCall
    /\ UNCHANGED steps_left

\* process_command before initialize_world: game_state is None
process_command_uninitialized ==
    /\ ~initialized
    /\ steps_left > 0
    /\ \E r \in RawInputs :
        /\ cmd' = ParsedCommand("", <<>>, r)
        /\ result' = Result(FALSE, "not_initialized")
    /\ events' = <<>>
    /\ steps_left' = steps_left - 1
    /\ NoBusCall
    /\ NoRepositoryCall
    /\ UNCHANGED <<initialized, stateVars, worldVars>>

\* process_command returns before any handler runs: validate_command
\* rejects the command, or handlers.get finds no handler for its name
process_command_invalid ==
    /\ initialized
    /\ steps_left > 0
    /\ \E r \in RawInputs :
        /\ Validated[r] # "ok" \/ r \in Unhandled
        /\ cmd' = Parsed[r]
        /\ result' = IF Validated[r] # "ok"
                     THEN Result(FALSE, Validated[r])
                     ELSE Result(FALSE, "not_implemented")
    /\ events' = <<>>
    /\ steps_left' = steps_left - 1
    /\ NoBusCall
    /\ NoRepositoryCall
    /\ UNCHANGED <<initialized, stateVars, worldVars>>

\* ------------------------------------------------------------------------
\* Helpers of the handlers
\* ------------------------------------------------------------------------

\* " ".join(args).lower() of every raw input
ArgText == [r \in RawInputs |-> LowerStr(Join(Parsed[r].args))]

ArgTexts == {ArgText[r] : r \in RawInputs}

\* item_name in item.name.lower() or item_name in item_id.lower()
NameOrIdContains(item_name, item_id) ==
    \/ IsSubstr(item_name, LowerStr(items_db[item_id].name))
    \/ IsSubstr(item_name, LowerStr(item_id))

\* the catalog items each argument text matches
ItemMatchTable ==
    [x \in ArgTexts |-> {id \in ItemIds : NameOrIdContains(x, id)}]

ItemMatches(item_name, item_id) == item_id \in ItemMatchTable[item_name]

\* the names of the enemies of the world
EnemyNames ==
    UNION {{world[l].enemies[k].name : k \in 1..Len(world[l].enemies)} :
           l \in LocationIds}

\* target_name in enemy["name"].lower()
NameContains(target_name, enemy_name) ==
    IsSubstr(target_name, LowerStr(enemy_name))

\* the enemy names each argument text matches
EnemyMatchTable ==
    [x \in ArgTexts |-> {n \in EnemyNames : NameContains(x, n)}]

EnemyMatches(target_name, enemy_name) ==
    enemy_name \in EnemyMatchTable[target_name]

\* a matching loop without break: index of the last entry that matches
FindItem_last(ids, item_name) ==
    IF \E k \in 1..Len(ids) : ids[k] \in ItemIds /\ ItemMatches(item_name, ids[k])
    THEN CHOOSE k \in 1..Len(ids) :
            /\ ids[k] \in ItemIds /\ ItemMatches(item_name, ids[k])
            /\ \A j \in (k + 1)..Len(ids) :
                   ~(ids[j] \in ItemIds /\ ItemMatches(item_name, ids[j]))
    ELSE 0

\* the matching loop with break: index of the first entry of ids (a list of
\* item ids) that matches item_name, 0 when the loop ends without a match
FindItem(ids, item_name) ==
    IF \E k \in 1..Len(ids) : ids[k] \in ItemIds /\ ItemMatches(item_name, ids[k])
    THEN CHOOSE k \in 1..Len(ids) :
            /\ ids[k] \in ItemIds /\ ItemMatches(item_name, ids[k])
            /\ \A j \in 1..(k - 1) :
                   ~(ids[j] \in ItemIds /\ ItemMatches(item_name, ids[j]))
    ELSE 0

\* the enemy loop with break: index of the first enemy whose lower-cased name
\* contains target_name, 0 when there is none
FindEnemy(enemies, target_name) ==
    IF \E k \in 1..Len(enemies) : EnemyMatches(target_name, enemies[k].name)
    THEN CHOOSE k \in 1..Len(enemies) :
            /\ EnemyMatches(target_name, enemies[k].name)
            /\ \A j \in 1..(k - 1) :
                   ~EnemyMatches(target_name, enemies[j].name)
    ELSE 0

\* a removal that leaves the list as it is
RemoveFirst_keeps(seq, v) == seq

\* list.remove(v): the list without its first element equal to v
RemoveFirst(seq, v) ==
    LET k == CHOOSE j \in 1..Len(seq) :
                 seq[j] = v /\ \A m \in 1..(j - 1) : seq[m] # v
    IN  RemoveAt(seq, k)

\* ------------------------------------------------------------------------
\* Command handlers
\* ------------------------------------------------------------------------

\* what every accepted process_command call does besides its handler
Dispatch(r) ==
    /\ initialized
    /\ steps_left > 0
    /\ cmd' = Parsed[r]
    /\ steps_left' = steps_left - 1
    /\ NoBusCall
    /\ NoRepositoryCall
    /\ UNCHANGED initialized

\* args[0].lower() of the raw inputs routed to handle_move
Direction == [r \in RoutedTo("move") |-> LowerStr(Parsed[r].args[1])]

\* a handle_move that publishes no PLAYER_MOVED event
move_silent(location_id, visited, direction) ==
    LET exits == world[location_id].exits
    IN  IF direction \notin DOMAIN exits
           \/ exits[direction] \notin LocationIds
           \/ world[exits[direction]].is_locked
        THEN [success |-> FALSE, message |-> "no_exit", location |-> location_id,
              visited |-> visited, events |-> <<>>]
        ELSE [success |-> TRUE, message |-> "moved",
              location |-> exits[direction],
              visited |-> visited \cup {exits[direction]},
              events |-> <<>>]

\* a handle_move that does not record the destination as visited
move_forgets_visit(location_id, visited, direction) ==
    LET exits == world[location_id].exits
    IN  IF direction \notin DOMAIN exits
           \/ exits[direction] \notin LocationIds
           \/ world[exits[direction]].is_locked
        THEN [success |-> FALSE, message |-> "no_exit", location |-> location_id,
              visited |-> visited, events |-> <<>>]
        ELSE [success |-> TRUE, message |-> "moved",
              location |-> exits[direction],
              visited |-> visited,
              events |-> <<GameEvent("player_moved",
                              [location |-> exits[direction],
                               direction |-> direction])>>]

\* handle_move from location location_id with the visited set visited: the
\* result, the new current location, the new visited set, the events
move(location_id, visited, direction) ==
    LET exits == world[location_id].exits
        refused(message) ==
            [success |-> FALSE, message |-> message, location |-> location_id,
             visited |-> visited, events |-> <<>>]
    IN  IF direction \notin DOMAIN exits THEN refused("no_exit")
        ELSE IF exits[direction] \notin LocationIds
        THEN refused("no_such_location")
        ELSE IF world[exits[direction]].is_locked THEN refused("locked")
        ELSE [success |-> TRUE, message |-> "moved",
              location |-> exits[direction],
              visited |-> visited \cup {exits[direction]},
              events |-> <<GameEvent("player_moved",
                              [location |-> exits[direction],
                               direction |-> direction])>>]

\* GameEngine.handle_move
handle_move ==
    \E r \in RoutedTo("move") :
        LET out == move(current_location, visited_locations, Direction[r])
        IN  /\ Dispatch(r)
            /\ current_location' = out.location
            /\ visited_locations' = out.visited
            /\ events' = out.events
            /\ result' = Completed(Result(out.success, out.message),
                                  out.events)
            /\ UNCHANGED <<playerVars, inventory, game_status, worldVars>>

\* GameEngine.handle_look: composes the description, changes nothing
handle_look ==
    \E r \in RoutedTo("look") :
        /\ Dispatch(r)
        /\ result' = Result(TRUE, "description")
        /\ events' = <<>>
        /\ UNCHANGED <<stateVars, worldVars>>

\* GameEngine.handle_inventory
handle_inventory ==
    \E r \in RoutedTo("inventory") :
        /\ Dispatch(r)
        /\ result' = Result(TRUE, "inventory")
        /\ events' = <<>>
        /\ UNCHANGED <<stateVars, worldVars>>

\* a handle_stats that refuses to answer once the game is over
handle_stats_refused_when_over ==
    \E r \in RoutedTo("stats") :
        /\ Dispatch(r)
        /\ result' = IF game_status = "game_over"
                     THEN Result(FALSE, "game_over")
                     ELSE Result(TRUE, "stats")
        /\ events' = <<>>
        /\ UNCHANGED <<stateVars, worldVars>>

\* GameEngine.handle_stats
handle_stats ==
    \E r \in RoutedTo("stats") :
        /\ Dispatch(r)
        /\ result' = Result(TRUE, "stats")
        /\ events' = <<>>
        /\ UNCHANGED <<stateVars, worldVars>>

\* GameEngine.handle_help
handle_help ==
    \E r \in RoutedTo("help") :
        /\ Dispatch(r)
        /\ result' = Result(TRUE, "help")
        /\ events' = <<>>
        /\ UNCHANGED <<stateVars, worldVars>>

\* GameEngine.handle_save: reports a save, stores nothing
handle_save ==
    \E r \in RoutedTo("save") :
        /\ Dispatch(r)
        /\ result' = Result(TRUE, "saved_demo")
        /\ events' = <<>>
        /\ UNCHANGED <<stateVars, worldVars>>

\* GameEngine.handle_load: reports that there is no saved game
handle_load ==
    \E r \in RoutedTo("load") :
        /\ Dispatch(r)
        /\ result' = Result(TRUE, "no_saved_games")
        /\ events' = <<>>
        /\ UNCHANGED <<stateVars, worldVars>>

\* a handle_take that leaves the item in the location
take_leaving_copy(items, inv, item_name) ==
    LET found == FindItem(items, item_name)
    IN  IF found = 0
        THEN [success |-> FALSE, message |-> "no_item_here", items |-> items,
              inventory |-> inv, events |-> <<>>]
        ELSE [success |-> TRUE, message |-> "picked_up",
              items |-> items,
              inventory |-> Append(inv, items[found]),
              events |-> <<GameEvent("item_picked_up",
                              [item |-> items_db[items[found]].name,
                               item_id |-> items[found]])>>]

\* handle_take on the location's items and the inventory: the result, the
\* new items of the location, the new inventory, the events
take(items, inv, item_name) ==
    LET found == FindItem(items, item_name)
    IN  IF found = 0
        THEN [success |-> FALSE, message |-> "no_item_here", items |-> items,
              inventory |-> inv, events |-> <<>>]
        ELSE [success |-> TRUE, message |-> "picked_up",
              items |-> RemoveFirst(items, items[found]),
              inventory |-> Append(inv, items[found]),
              events |-> <<GameEvent("item_picked_up",
                              [item |-> items_db[items[found]].name,
                               item_id |-> items[found]])>>]

\* GameEngine.handle_take
handle_take ==
    \E r \in RoutedTo("take") :
        LET out == take(loc_items[current_location], inventory, ArgText[r])
        IN  /\ Dispatch(r)
            /\ loc_items' = [loc_items EXCEPT ![current_location] = out.items]
            /\ inventory' = out.inventory
            /\ events' = out.events
            /\ result' = Completed(Result(out.success, out.message),
                                  out.events)
            /\ UNCHANGED <<playerVars, current_location, game_status,
                           visited_locations, loc_enemies>>

\* a handle_drop that puts the item in front of the location's items
drop_in_front(items, inv, item_name) ==
    LET found_index == FindItem(inv, item_name)
    IN  IF found_index = 0
        THEN [success |-> FALSE, message |-> "not_in_inventory",
              items |-> items, inventory |-> inv, events |-> <<>>]
        ELSE [success |-> TRUE, message |-> "dropped",
              items |-> <<inv[found_index]>> \o items,
              inventory |-> RemoveAt(inv, found_index),
              events |-> <<GameEvent("item_dropped",
                              [item |-> items_db[inv[found_index]].name,
                               item_id |-> inv[found_index]])>>]

\* a handle_drop whose loop keeps the last match
drop_last_match(items, inv, item_name) ==
    LET found_index == FindItem_last(inv, item_name)
    IN  IF found_index = 0
        THEN [success |-> FALSE, message |-> "not_in_inventory",
              items |-> items, inventory |-> inv, events |-> <<>>]
        ELSE [success |-> TRUE, message |-> "dropped",
              items |-> Append(items, inv[found_index]),
              inventory |-> RemoveAt(inv, found_index),
              events |-> <<GameEvent("item_dropped",
                              [item |-> items_db[inv[found_index]].name,
                               item_id |-> inv[found_index]])>>]

\* handle_drop on the location's items and the inventory: the result, the
\* new items of the location, the new inventory, the events
drop(items, inv, item_name) ==
    LET found_index == FindItem(inv, item_name)
    IN  IF found_index = 0
        THEN [success |-> FALSE, message |-> "not_in_inventory",
              items |-> items, inventory |-> inv, events |-> <<>>]
        ELSE [success |-> TRUE, message |-> "dropped",
              items |-> Append(items, inv[found_index]),
              inventory |-> RemoveAt(inv, found_index),
              events |-> <<GameEvent("item_dropped",
                              [item |-> items_db[inv[found_index]].name,
                               item_id |-> inv[found_index]])>>]

\* GameEngine.handle_drop
handle_drop ==
    \E r \in RoutedTo("drop") :
        LET out == drop(loc_items[current_location], inventory, ArgText[r])
        IN  /\ Dispatch(r)
            /\ loc_items' = [loc_items EXCEPT ![current_location] = out.items]
            /\ inventory' = out.inventory
            /\ events' = out.events
            /\ result' = Completed(Result(out.success, out.message),
                                  out.events)
            /\ UNCHANGED <<playerVars, current_location, game_status,
                           visited_locations, loc_enemies>>

Min(a, b) == IF a < b THEN a ELSE b

\* max(a, b)
Max(a, b) == IF a > b THEN a ELSE b

\* the cap of the mana effect
ManaCap == 100

\* a heal without the clamp at max_health
HealedHealth_unclamped(h, heal_amount, maxh) == h + heal_amount

\* health after a heal effect: min(player.health + heal_amount, max_health)
HealedHealth(h, heal_amount, maxh) == Min(h + heal_amount, maxh)

\* a mana effect that sets the mana to the amount instead of adding it
RestoredMana_replace(m, mana_amount) == Min(mana_amount, ManaCap)

\* mana after a mana effect: min(player.mana + mana_amount, 100)
RestoredMana(m, mana_amount) == Min(m + mana_amount, ManaCap)

\* every used item is used up, whatever its type
IsConsumed_always(item_id) == TRUE

\* found_item.item_type in ["potion", "treasure"]
IsConsumed(item_id) == items_db[item_id].item_type \in {"potion", "treasure"}

\* a handle_use that uses up a potion or treasure before it looks at the
\* effect map
use_consume_first(inv, h, maxh, m, str, item_name) ==
    LET found_index == FindItem(inv, item_name)
        unused(message) ==
            [success |-> FALSE, message |-> message, inventory |-> inv,
             health |-> h, mana |-> m, strength |-> str, events |-> <<>>]
    IN  IF found_index = 0 THEN unused("not_in_inventory")
        ELSE
        LET found_item == inv[found_index]
            effect == items_db[found_item].effect
            heals == "heal" \in DOMAIN effect
            new_health == IF heals THEN HealedHealth(h, effect["heal"], maxh)
                          ELSE h
            left == IF IsConsumed(found_item)
                    THEN RemoveAt(inv, found_index) ELSE inv
        IN  IF DOMAIN effect = {}
            THEN [unused("cant_be_used") EXCEPT !.inventory = left]
            ELSE [success |-> TRUE, message |-> "used",
                  inventory |-> left,
                  health |-> new_health,
                  mana |-> IF "mana" \in DOMAIN effect
                           THEN RestoredMana(m, effect["mana"]) ELSE m,
                  strength |-> IF "strength_boost" \in DOMAIN effect
                               THEN str + effect["strength_boost"] ELSE str,
                  events |->
                      (IF heals
                       THEN <<GameEvent("player_healed",
                                 [amount |-> new_health - h])>>
                       ELSE <<>>)
                      \o <<GameEvent("item_used",
                              [item |-> items_db[found_item].name,
                               effect |-> effect])>>]

\* a handle_use without the test for an empty effect map
use_any_effect(inv, h, maxh, m, str, item_name) ==
    LET found_index == FindItem(inv, item_name)
    IN  IF found_index = 0
        THEN [success |-> FALSE, message |-> "not_in_inventory",
              inventory |-> inv, health |-> h, mana |-> m, strength |-> str,
              events |-> <<>>]
        ELSE
        LET found_item == inv[found_index]
            effect == items_db[found_item].effect
            heals == "heal" \in DOMAIN effect
            new_health == IF heals THEN HealedHealth(h, effect["heal"], maxh)
                          ELSE h
        IN  [success |-> TRUE, message |-> "used",
             inventory |-> IF IsConsumed(found_item)
                           THEN RemoveAt(inv, found_index) ELSE inv,
             health |-> new_health,
             mana |-> IF "mana" \in DOMAIN effect
                      THEN RestoredMana(m, effect["mana"]) ELSE m,
             strength |-> IF "strength_boost" \in DOMAIN effect
                          THEN str + effect["strength_boost"] ELSE str,
             events |->
                 (IF heals
                  THEN <<GameEvent("player_healed",
                            [amount |-> new_health - h])>>
                  ELSE <<>>)
                 \o <<GameEvent("item_used",
                         [item |-> items_db[found_item].name,
                          effect |-> effect])>>]

\* a handle_use that assigns the boost to the strength instead of adding it
use_boost_assigned(inv, h, maxh, m, str, item_name) ==
    LET found_index == FindItem(inv, item_name)
        unused(message) ==
            [success |-> FALSE, message |-> message, inventory |-> inv,
             health |-> h, mana |-> m, strength |-> str, events |-> <<>>]
    IN  IF found_index = 0 THEN unused("not_in_inventory")
        ELSE
        LET found_item == inv[found_index]
            effect == items_db[found_item].effect
            heals == "heal" \in DOMAIN effect
            new_health == IF heals THEN HealedHealth(h, effect["heal"], maxh)
                          ELSE h
        IN  IF DOMAIN effect = {} THEN unused("cant_be_used")
            ELSE [success |-> TRUE, message |-> "used",
                  inventory |-> IF IsConsumed(found_item)
                                THEN RemoveAt(inv, found_index) ELSE inv,
                  health |-> new_health,
                  mana |-> IF "mana" \in DOMAIN effect
                           THEN RestoredMana(m, effect["mana"]) ELSE m,
                  strength |-> IF "strength_boost" \in DOMAIN effect
                               THEN effect["strength_boost"] ELSE str,
                  events |->
                      (IF heals
                       THEN <<GameEvent("player_healed",
                                 [amount |-> new_health - h])>>
                       ELSE <<>>)
                      \o <<GameEvent("item_used",
                              [item |-> items_db[found_item].name,
                               effect |-> effect])>>]

\* handle_use on the inventory and the player's health, max_health, mana and
\* strength: the result, the new inventory and stats, the events
use(inv, h, maxh, m, str, item_name) ==
    LET found_index == FindItem(inv, item_name)
        unused(message) ==
            [success |-> FALSE, message |-> message, inventory |-> inv,
             health |-> h, mana |-> m, strength |-> str, events |-> <<>>]
    IN  IF found_index = 0 THEN unused("not_in_inventory")
        ELSE
        LET found_item == inv[found_index]
            effect == items_db[found_item].effect
            heals == "heal" \in DOMAIN effect
            new_health == IF heals THEN HealedHealth(h, effect["heal"], maxh)
                          ELSE h
        IN  IF DOMAIN effect = {} THEN unused("cant_be_used")
            ELSE [success |-> TRUE, message |-> "used",
                  inventory |-> IF IsConsumed(found_item)
                                THEN RemoveAt(inv, found_index) ELSE inv,
                  health |-> new_health,
                  mana |-> IF "mana" \in DOMAIN effect
                           THEN RestoredMana(m, effect["mana"]) ELSE m,
                  strength |-> IF "strength_boost" \in DOMAIN effect
                               THEN str + effect["strength_boost"] ELSE str,
                  events |->
                      (IF heals
                       THEN <<GameEvent("player_healed",
                                 [amount |-> new_health - h])>>
                       ELSE <<>>)
                      \o <<GameEvent("item_used",
                              [item |-> items_db[found_item].name,
                               effect |-> effect])>>]

\* GameEngine.handle_use
handle_use ==
    \E r \in RoutedTo("use") :
        LET out == use(inventory, health, max_health, mana, strength, ArgText[r])
        IN  /\ Dispatch(r)
            /\ inventory' = out.inventory
            /\ health' = out.health
            /\ mana' = out.mana
            /\ strength' = out.strength
            /\ events' = out.events
            /\ result' = Completed(Result(out.success, out.message),
                                  out.events)
            /\ UNCHANGED <<max_health, level, experience, current_location,
                           game_status, visited_locations, worldVars>>

\* a hit that can be one point weaker
DamageRange_weak(str) == (str - 3)..(str + 3)

\* a hit that can miss: the damage is 0 or the player's strength
DamageRange_may_miss(str) == {0, str}

\* random.randint(player.strength - 2, player.strength + 3)
DamageRange(str) == (str - 2)..(str + 3)

\* random.randint(15, 30)
ExpRange == 15..30

\* a counter-attack that strikes twice
CounterAttackHealth_double(h, enemy_damage) == h - 2 * enemy_damage

\* player.health -= enemy_damage
CounterAttackHealth(h, enemy_damage) == h - enemy_damage

\* a counter-attack that marks the fight in game_status while the player lives
StatusAfterCounter_combat(h, status) ==
    IF h <= 0 THEN "game_over" ELSE "combat"

\* a defeat test that needs the health to fall below 0
StatusAfterCounter_below_zero(h, status) ==
    IF h < 0 THEN "game_over" ELSE status

\* game_status after the counter-attack left the player with health h
StatusAfterCounter(h, status) == IF h <= 0 THEN "game_over" ELSE status

\* a level for every 50 points of experience
LevelFor_half(exp) == (exp \div 50) + 1

\* (player.experience // 100) + 1
LevelFor(exp) == (exp \div 100) + 1

\* evaluating location.id for the COMBAT_ENDED data succeeds
LocationHasId == "id" \in LocationAttrs

\* GameEngine.handle_attack
handle_attack ==
    \E r \in RoutedTo("attack") :
        LET target_name == ArgText[r]
            enemies == loc_enemies[current_location]
            k == FindEnemy(enemies, target_name)
        IN  /\ Dispatch(r)
            /\ IF k = 0
               THEN /\ result' = Result(FALSE, "no_enemy")
                    /\ events' = <<>>
                    /\ UNCHANGED <<stateVars, worldVars>>
               ELSE
               \E damage_dealt \in DamageRange(strength) :
               LET target_enemy == [enemies[k] EXCEPT !.health = @ - damage_dealt]
                   hit == [enemies EXCEPT ![k] = target_enemy]
                   damaged == GameEvent("enemy_damaged",
                                  [enemy |-> target_enemy.name,
                                   damage |-> damage_dealt])
               IN  IF target_enemy.health <= 0
                   THEN
                   \E exp_gain \in ExpRange :
                   LET left == RemoveFirst(hit, target_enemy)
                       new_level == LevelFor(experience + exp_gain)
                       level_up == new_level > level
                       defeated == GameEvent("enemy_defeated",
                                       [enemy |-> target_enemy.name,
                                        experience |-> exp_gain])
                       published ==
                           <<damaged>>
                           \o (IF level_up
                               THEN <<GameEvent("level_up", [level |-> new_level])>>
                               ELSE <<>>)
                           \o <<defeated>>
                   IN  /\ loc_enemies' =
                              [loc_enemies EXCEPT ![current_location] = left]
                       /\ experience' = experience + exp_gain
                       /\ level' = IF level_up THEN new_level ELSE level
                       /\ max_health' = IF level_up THEN max_health + 10
                                        ELSE max_health
                       /\ health' = IF level_up THEN max_health + 10 ELSE health
                       /\ strength' = IF level_up THEN strength + 2 ELSE strength
                       /\ IF left # <<>>
                          THEN /\ events' = published
                               /\ result' =
                                      Completed(AttackResult(TRUE,
                                                    "enemy_defeated",
                                                    target_enemy.health),
                                                published)
                          ELSE IF LocationHasId
                          THEN /\ events' = published \o
                                      <<GameEvent("combat_ended",
                                           [result |-> "victory",
                                            location |-> current_location])>>
                               /\ result' =
                                      Completed(AttackResult(TRUE,
                                                    "enemy_defeated",
                                                    target_enemy.health),
                                                events')
                          ELSE /\ events' = published
                               /\ result' =
                                      Completed(Raised("AttributeError"),
                                                published)
                       /\ UNCHANGED <<mana, current_location, inventory,
                                      game_status, visited_locations, loc_items>>
                   ELSE
                   LET new_health == CounterAttackHealth(health, target_enemy.damage)
                   IN  /\ loc_enemies' =
                              [loc_enemies EXCEPT ![current_location] = hit]
                       /\ health' = new_health
                       /\ game_status' = StatusAfterCounter(new_health, game_status)
                       /\ events' = <<damaged,
                                      GameEvent("player_damaged",
                                          [damage |-> target_enemy.damage,
                                           enemy |-> target_enemy.name])>>
                       /\ result' =
                              Completed(AttackResult(TRUE, "enemy_survives",
                                                     target_enemy.health),
                                        events')
                       /\ UNCHANGED <<max_health, mana, strength, level,
                                      experience, current_location, inventory,
                                      visited_locations, loc_items>>

\* ------------------------------------------------------------------------
\* Specification
\* ------------------------------------------------------------------------

\* GameEngine.process_command once the game is initialized
process_command ==
    \/ process_command_invalid
    \/ handle_move
    \/ handle_look
    \/ handle_take
    \/ handle_drop
    \/ handle_use
    \/ handle_inventory
    \/ handle_stats
    \/ handle_attack
    \/ handle_help
    \/ handle_save
    \/ handle_load

Next ==
    \/ initialize_world
    \/ process_command_uninitialized
    \/ process_command

Spec == Init /\ [][Next]_vars

\* The state after initialize_world and the three commands "move north",
\* "move north", "move east": the player stands in the treasure room, in
\* front of the dragon, and nothing else has changed.
AtLair ==
    /\ initialized = TRUE
    /\ health = 100 /\ max_health = ClassMaxHealth /\ mana = 50
    /\ strength = 10 /\ level = 1 /\ experience = 0
    /\ current_location = "treasure_room"
    /\ inventory = <<>>
    /\ game_status = "playing"
    /\ visited_locations = {"start", "forest", "dungeon", "treasure_room"}
    /\ loc_items = [l \in LocationIds |-> world[l].items]
    /\ loc_enemies = [l \in LocationIds |-> world[l].enemies]
    /\ events = <<GameEvent("player_moved",
                     [location |-> "treasure_room", direction |-> "east"])>>
    /\ cmd = Parsed["move east"]
    /\ result = Result(TRUE, "moved")
    /\ subscribers = setup_event_listeners
    /\ bus_call = NoCall
    /\ RepositoriesConstructed

InitLair == AtLair /\ steps_left = MaxLairSteps

NextLair ==
    \/ initialize_world
    \/ process_command

\* the behaviours that continue from the lair
SpecLair == InitLair /\ [][NextLair]_vars

\* The state after initialize_world and the command "move north": the player
\* has just arrived in the forest, where the wolf is.
AtForest ==
    /\ initialized = TRUE
    /\ health = 100 /\ max_health = ClassMaxHealth /\ mana = 50
    /\ strength = 10 /\ level = 1 /\ experience = 0
    /\ current_location = "forest"
    /\ inventory = <<>>
    /\ game_status = "playing"
    /\ visited_locations = {"start", "forest"}
    /\ loc_items = [l \in LocationIds |-> world[l].items]
    /\ loc_enemies = [l \in LocationIds |-> world[l].enemies]
    /\ events = <<GameEvent("player_moved",
                     [location |-> "forest", direction |-> "north"])>>
    /\ cmd = Parsed["move north"]
    /\ result = Result(TRUE, "moved")
    /\ subscribers = setup_event_listeners
    /\ bus_call = NoCall
    /\ RepositoriesConstructed

\* The state after initialize_world and twice "move north": the player has
\* just arrived in the dungeon, where the goblin and the skeleton are.
AtDungeon ==
    /\ initialized = TRUE
    /\ health = 100 /\ max_health = ClassMaxHealth /\ mana = 50
    /\ strength = 10 /\ level = 1 /\ experience = 0
    /\ current_location = "dungeon"
    /\ inventory = <<>>
    /\ game_status = "playing"
    /\ visited_locations = {"start", "forest", "dungeon"}
    /\ loc_items = [l \in LocationIds |-> world[l].items]
    /\ loc_enemies = [l \in LocationIds |-> world[l].enemies]
    /\ events = <<GameEvent("player_moved",
                     [location |-> "dungeon", direction |-> "north"])>>
    /\ cmd = Parsed["move north"]
    /\ result = Result(TRUE, "moved")
    /\ subscribers = setup_event_listeners
    /\ bus_call = NoCall
    /\ RepositoriesConstructed

InitDuel == (AtForest \/ AtDungeon \/ AtLair) /\ steps_left = MaxDuelSteps

\* the player keeps attacking: an attack command, and once the first one has
\* been given every later command repeats it
DuelAttack ==
    /\ handle_attack
    /\ cmd.command = "attack" => cmd'.raw = cmd.raw

NextDuel == DuelAttack

\* one more command is accepted.  DuelAttack is enabled exactly when this is
\* (handle_attack accepts an attack command in every state of an initialized
\* game), and the steps of NextDuel that change steps_left are the DuelAttack
\* steps, so fairness for this action is fairness for DuelAttack.
AttackIssued ==
    /\ initialized
    /\ steps_left > 0
    /\ steps_left' = steps_left - 1

\* the behaviours in which the player, arrived in front of enemies, does
\* nothing but attack and does not stop attacking while a command is left
SpecDuel == InitDuel /\ [][NextDuel]_vars /\ WF_steps_left(AttackIssued)

\* The state three commands "attack dragon" after AtLair, every hit dealing
\* 13: the dragon has 61 points left and its three counter-attacks have
\* brought the player's health to 25, so that the next one ends the game.
AtBrink ==
    /\ initialized = TRUE
    /\ health = 25 /\ max_health = ClassMaxHealth /\ mana = 50
    /\ strength = 10 /\ level = 1 /\ experience = 0
    /\ current_location = "treasure_room"
    /\ inventory = <<>>
    /\ game_status = "playing"
    /\ visited_locations = {"start", "forest", "dungeon", "treasure_room"}
    /\ loc_items = [l \in LocationIds |-> world[l].items]
    /\ loc_enemies =
           [l \in LocationIds |->
               IF l = "treasure_room" THEN <<Enemy("dragon", "Dragon", 61, 25)>>
               ELSE world[l].enemies]
    /\ events = <<GameEvent("enemy_damaged", [enemy |-> "Dragon", damage |-> 13]),
                  GameEvent("player_damaged", [damage |-> 25, enemy |-> "Dragon"])>>
    /\ cmd = Parsed["attack dragon"]
    /\ result = AttackResult(TRUE, "enemy_survives", 61)
    /\ subscribers = setup_event_listeners
    /\ bus_call = NoCall
    /\ RepositoriesConstructed

InitBrink == AtBrink /\ steps_left = MaxBrinkSteps

\* the behaviours that continue from the brink of defeat
SpecBrink == InitBrink /\ [][NextLair]_vars

\* experience the three enemies before the dragon can have given: each
\* defeat gives 15 to 30, so every sum from 45 to 90 occurs; these are the
\* sums at and around the ones from which the last defeat reaches 100
ExpBeforeDragon == {45, 69, 70, 85, 90}

\* The state after initialize_world and the twenty commands "move north",
\* three times "attack wolf", "move north", four times "attack o" (the
\* goblin), three times "attack skeleton", "move east" and seven times
\* "attack dragon", every hit dealing 13: the wolf, the goblin and the
\* skeleton are defeated, the dragon is left with 9 of its 100 points, and
\* the 2 + 3 + 2 + 7 counter-attacks have taken 20 + 45 + 24 + 175 from the
\* player's health.
AtLastBlow ==
    /\ initialized = TRUE
    /\ health = -164 /\ max_health = ClassMaxHealth /\ mana = 50
    /\ strength = 10 /\ level = 1 /\ experience \in ExpBeforeDragon
    /\ current_location = "treasure_room"
    /\ inventory = <<>>
    /\ game_status = "game_over"
    /\ visited_locations = {"start", "forest", "dungeon", "treasure_room"}
    /\ loc_items = [l \in LocationIds |-> world[l].items]
    /\ loc_enemies =
           [l \in LocationIds |->
               IF l = "treasure_room" THEN <<Enemy("dragon", "Dragon", 9, 25)>>
               ELSE <<>>]
    /\ events = <<GameEvent("enemy_damaged", [enemy |-> "Dragon", damage |-> 13]),
                  GameEvent("player_damaged", [damage |-> 25, enemy |-> "Dragon"])>>
    /\ cmd = Parsed["attack dragon"]
    /\ result = AttackResult(TRUE, "enemy_survives", 9)
    /\ subscribers = setup_event_listeners
    /\ bus_call = NoCall
    /\ RepositoriesConstructed

InitStand == AtLastBlow /\ steps_left = MaxStandSteps

\* the behaviours that continue from the last blow against the dragon
SpecStand == InitStand /\ [][NextLair]_vars

\* the event types and the callbacks the observers' calls of the event
\* manager use
BusTypes == {"player_moved", "item_picked_up"}

BusCallbacks == {"_on_player_moved", "listener", "faulty_listener"}

\* a call of the event manager leaves the game alone
BusFrame ==
    /\ steps_left > 0
    /\ steps_left' = steps_left - 1
    /\ cmd' = NoCommand
    /\ result' = NoResult
    /\ NoRepositoryCall
    /\ UNCHANGED <<initialized, stateVars, worldVars>>

\* event_manager.subscribe(t, cb)
EventManager_subscribe ==
    \E t \in BusTypes, cb \in BusCallbacks :
        LET out == subscribe(subscribers, t, cb)
        IN  /\ BusFrame
            /\ subscribers' = out.events
            /\ bus_call' = BusCall("subscribe", t, cb, out.returned)
            /\ events' = <<>>

\* event_manager.unsubscribe(t, cb)
EventManager_unsubscribe ==
    \E t \in BusTypes, cb \in BusCallbacks :
        LET out == unsubscribe(subscribers, t, cb)
        IN  /\ BusFrame
            /\ subscribers' = out.events
            /\ bus_call' = BusCall("unsubscribe", t, cb, out.returned)
            /\ events' = <<>>

\* event_manager.clear_subscribers(t) and event_manager.clear_subscribers()
EventManager_clear_subscribers ==
    \E t \in BusTypes \cup {None} :
        /\ BusFrame
        /\ subscribers' = clear_subscribers(subscribers, t)
        /\ bus_call' = BusCall("clear_subscribers", t, None, None)
        /\ events' = <<>>

\* event_manager.publish(t, {"location": "forest"})
EventManager_publish ==
    \E t \in BusTypes :
        LET out == publish(subscribers, t, [location |-> "forest"])
        IN  /\ BusFrame
            /\ events' = <<out.event>>
            /\ bus_call' = BusCall("publish", t, None,
                                   IF out.raised THEN Raised("Exception")
                                   ELSE out.event)
            /\ subscribers' = out.events

\* the callbacks the publish calls of the events evs invoke, in order
RECURSIVE Invocations(_, _)
Invocations(d, evs) ==
    IF evs = <<>> THEN <<>>
    ELSE LET out == publish(d, Head(evs).type, Head(evs).data)
         IN  IF out.raised THEN out.invoked
             ELSE out.invoked \o Invocations(out.events, Tail(evs))

\* the callbacks the last call invoked, in order
invoked == Invocations(subscribers, events)

InitBus == Constructed /\ steps_left = MaxBusSteps

NextBus ==
    \/ initialize_world
    \/ EventManager_subscribe
    \/ EventManager_unsubscribe
    \/ EventManager_clear_subscribers
    \/ EventManager_publish
    \/ handle_move
    \/ handle_take

\* the behaviours in which observers subscribe, unsubscribe and publish
\* while the player moves and takes items
SpecBus == InitBus /\ [][NextBus]_vars

\* ---- the event manager with handlers that call it back ----

\* handlers that subscribe and unsubscribe while publish invokes them
Handlers == {"listener", "one_shot", "remover", "recruiter"}

\* event_manager.subscribe(t, handler)
EventManager_subscribe_handler ==
    \E t \in BusTypes, cb \in Handlers :
        LET out == subscribe(subscribers, t, cb)
        IN  /\ BusFrame
            /\ subscribers' = out.events
            /\ bus_call' = BusCall("subscribe", t, cb, out.returned)
            /\ events' = <<>>

\* event_manager.unsubscribe(t, handler)
EventManager_unsubscribe_handler ==
    \E t \in BusTypes, cb \in Handlers :
        LET out == unsubscribe(subscribers, t, cb)
        IN  /\ BusFrame
            /\ subscribers' = out.events
            /\ bus_call' = BusCall("unsubscribe", t, cb, out.returned)
            /\ events' = <<>>

InitHandlers == Constructed /\ steps_left = MaxHandlerSteps

NextHandlers ==
    \/ EventManager_subscribe_handler
    \/ EventManager_unsubscribe_handler
    \/ EventManager_publish

SpecHandlers == InitHandlers /\ [][NextHandlers]_vars

\* ---- GameStateRepository ----

\* list(a_set): the elements in some order
RECURSIVE ListOfSet(_)
ListOfSet(set) ==
    IF set = {} THEN <<>>
    ELSE LET x == CHOOSE y \in set : TRUE
         IN  <<x>> \o ListOfSet(set \ {x})

\* set(a_list)
SetOfList(list) == {list[k] : k \in 1..Len(list)}

\* GameStateData.to_dict: the inventory entry is the list object of the
\* state itself, the visited locations are put in a new list
to_dict(state) ==
    [player_id |-> state.player_id,
     current_location_id |-> state.current_location_id,
     inventory |-> state.inventory,
     game_status |-> state.game_status,
     visited_locations |-> ListOfSet(state.visited_locations)]

\* GameStateData.from_dict: the inventory field is the list object of the
\* dictionary, the visited locations are put in a new set
from_dict(data) ==
    GameStateData(data.player_id, data.current_location_id, data.inventory,
                  data.game_status, SetOfList(data.visited_locations))

\* what a state says, with the list that its inventory field refers to
StateValue(state, heap) ==
    [current_location_id |-> state.current_location_id,
     inventory |-> heap[state.inventory],
     game_status |-> state.game_status,
     visited_locations |-> state.visited_locations]

\* the arguments of the repository calls
SaveNames == {"autosave", "slot_1"}
RepoLocations == {"forest"}
RepoItems == {"iron_sword", "health_potion"}
RepoStatuses == {"game_over", "asleep"}

\* a call of a repository leaves the game and the event manager alone
RepoFrame ==
    /\ steps_left > 0
    /\ steps_left' = steps_left - 1
    /\ UNCHANGED <<initialized, stateVars, worldVars, events, cmd, result,
                   busVars>>

\* GameStateRepository.initialize_new_game
initialize_new_game ==
    /\ RepoFrame
    /\ lists' = Append(lists, <<>>)
    /\ current_state' =
           GameStateData("player_1", "start", Len(lists) + 1, "playing", {})
    /\ repo_call' = RepoCall("initialize_new_game", None,
                             StateValue(current_state', lists'))
    /\ UNCHANGED <<saved_games, saved_values, storage>>

\* GameStateRepository.update_location
update_location ==
    \E location_id \in RepoLocations :
        /\ RepoFrame
        /\ IF current_state # NoState
           THEN /\ current_state' =
                       [current_state EXCEPT
                           !.current_location_id = location_id,
                           !.visited_locations = @ \cup {location_id}]
                /\ repo_call' = RepoCall("update_location", location_id, TRUE)
           ELSE /\ UNCHANGED current_state
                /\ repo_call' = RepoCall("update_location", location_id, FALSE)
        /\ UNCHANGED <<saved_games, lists, saved_values, storage>>

\* GameStateRepository.add_item_to_inventory: appends to the list object
add_item_to_inventory ==
    \E item_id \in RepoItems :
        /\ RepoFrame
        /\ IF current_state # NoState
              /\ ~InList(item_id, lists[current_state.inventory])
           THEN /\ lists' = [lists EXCEPT ![current_state.inventory] =
                                 Append(@, item_id)]
                /\ repo_call' = RepoCall("add_item_to_inventory", item_id,
                                         TRUE)
           ELSE /\ UNCHANGED lists
                /\ repo_call' = RepoCall("add_item_to_inventory", item_id,
                                         FALSE)
        /\ UNCHANGED <<current_state, saved_games, saved_values, storage>>

\* GameStateRepository.remove_item_from_inventory: removes from the list
\* object
remove_item_from_inventory ==
    \E item_id \in RepoItems :
        /\ RepoFrame
        /\ IF current_state # NoState
              /\ InList(item_id, lists[current_state.inventory])
           THEN /\ lists' = [lists EXCEPT ![current_state.inventory] =
                                 RemoveAt(@, IndexOf(item_id, @))]
                /\ repo_call' = RepoCall("remove_item_from_inventory",
                                         item_id, TRUE)
           ELSE /\ UNCHANGED lists
                /\ repo_call' = RepoCall("remove_item_from_inventory",
                                         item_id, FALSE)
        /\ UNCHANGED <<current_state, saved_games, saved_values, storage>>

\* GameStateRepository.set_game_status
set_game_status ==
    \E status \in RepoStatuses :
        /\ RepoFrame
        /\ IF current_state # NoState
              /\ status \in {"playing", "combat", "game_over", "paused"}
           THEN /\ current_state' =
                       [current_state EXCEPT !.game_status = status]
                /\ repo_call' = RepoCall("set_game_status", status, TRUE)
           ELSE /\ UNCHANGED current_state
                /\ repo_call' = RepoCall("set_game_status", status, FALSE)
        /\ UNCHANGED <<saved_games, lists, saved_values, storage>>

\* GameStateRepository.save_game
save_game ==
    \E save_name \in SaveNames :
        /\ RepoFrame
        /\ IF current_state # NoState
           THEN /\ saved_games' = SetKey(saved_games, save_name,
                                         from_dict(to_dict(current_state)))
                /\ saved_values' = SetKey(saved_values, save_name,
                                          StateValue(current_state, lists))
                /\ repo_call' = RepoCall("save_game", save_name, TRUE)
           ELSE /\ UNCHANGED <<saved_games, saved_values>>
                /\ repo_call' = RepoCall("save_game", save_name, FALSE)
        /\ UNCHANGED <<current_state, lists, storage>>

\* GameStateRepository.load_game: returns the new current state
load_game ==
    \E save_name \in SaveNames :
        /\ RepoFrame
        /\ IF save_name \in DOMAIN saved_games
           THEN /\ current_state' = from_dict(to_dict(saved_games[save_name]))
                /\ repo_call' = RepoCall("load_game", save_name,
                                         StateValue(current_state', lists))
           ELSE /\ UNCHANGED current_state
                /\ repo_call' = RepoCall("load_game", save_name, NoState)
        /\ UNCHANGED <<saved_games, lists, saved_values, storage>>

InitSaves == Constructed /\ steps_left = MaxSaveSteps

NextSaves ==
    \/ initialize_new_game
    \/ update_location
    \/ add_item_to_inventory
    \/ remove_item_from_inventory
    \/ set_game_status
    \/ save_game
    \/ load_game

SpecSaves == InitSaves /\ [][NextSaves]_vars

\* ---- PlayerRepository ----

\* the arguments of the repository calls
PlayerNames == {"Ann", "Bob"}
StartHealths == {40, 100}
PlayerIds == {PlayerId(n) : n \in 1..3}
Amounts == {30, 150}
ExperienceGains == {50, 100}

\* del self._storage[id]
DelKey(d, id) == [k \in DOMAIN d \ {id} |-> d[k]]

\* a call of the player repository leaves the game state repository alone
PlayerFrame ==
    /\ RepoFrame
    /\ UNCHANGED <<current_state, saved_games, lists, saved_values>>

\* PlayerRepository.create_player, with BaseRepository.create
create_player ==
    \E name \in PlayerNames, h \in StartHealths :
        LET player_id == PlayerId(Cardinality(DOMAIN storage) + 1)
        IN  /\ PlayerFrame
            /\ storage' = SetKey(storage, player_id,
                                 PlayerCharacter(name, h, 50, 10, 1, 0))
            /\ repo_call' = RepoCall("create_player", <<name, h>>, player_id)

\* BaseRepository.delete
delete ==
    \E id \in PlayerIds :
        /\ PlayerFrame
        /\ IF id \in DOMAIN storage
           THEN /\ storage' = DelKey(storage, id)
                /\ repo_call' = RepoCall("delete", id, TRUE)
           ELSE /\ UNCHANGED storage
                /\ repo_call' = RepoCall("delete", id, FALSE)

\* the player after the level-up logic of add_experience
with_experience(player, exp) ==
    LET total == player.experience + exp
        new_level == (total \div 100) + 1
    IN  IF new_level > player.level
        THEN PlayerCharacter(player.name, player.health + 10,
                             player.mana + 5, player.strength + 2,
                             new_level, total)
        ELSE [player EXCEPT !.experience = total]

\* PlayerRepository.add_experience
add_experience ==
    \E id \in PlayerIds, exp \in ExperienceGains :
        /\ PlayerFrame
        /\ IF id \in DOMAIN storage
           THEN /\ storage' = [storage EXCEPT
                                  ![id] = with_experience(@, exp)]
                /\ repo_call' = RepoCall("add_experience", <<id, exp>>, TRUE)
           ELSE /\ UNCHANGED storage
                /\ repo_call' = RepoCall("add_experience", <<id, exp>>, FALSE)

\* PlayerRepository.take_damage
take_damage ==
    \E id \in PlayerIds, damage \in Amounts :
        /\ PlayerFrame
        /\ IF id \in DOMAIN storage
           THEN /\ storage' = [storage EXCEPT
                                  ![id].health = Max(0, @ - damage)]
                /\ repo_call' = RepoCall("take_damage", <<id, damage>>, TRUE)
           ELSE /\ UNCHANGED storage
                /\ repo_call' = RepoCall("take_damage", <<id, damage>>, FALSE)

\* PlayerRepository.heal
heal ==
    \E id \in PlayerIds, amount \in Amounts :
        /\ PlayerFrame
        /\ IF id \in DOMAIN storage
           THEN /\ storage' = [storage EXCEPT
                                  ![id].health = Min(@ + amount, ClassMaxHealth)]
                /\ repo_call' = RepoCall("heal", <<id, amount>>, TRUE)
           ELSE /\ UNCHANGED storage
                /\ repo_call' = RepoCall("heal", <<id, amount>>, FALSE)

InitPlayers == Constructed /\ steps_left = MaxPlayerSteps

NextPlayers ==
    \/ create_player
    \/ delete
    \/ add_experience
    \/ take_damage
    \/ heal

SpecPlayers == InitPlayers /\ [][NextPlayers]_vars

\* ------------------------------------------------------------------------
\* Properties
\* ------------------------------------------------------------------------

\* the step is a process_command call: it leaves a result behind
Called == result' # NoResult

\* C1: in every state after initialize_world the player's health is within
\* 0 and max_health, also after attack rounds with a counter-attack.
C1_HealthInRange ==
    initialized => (0 <= health /\ health <= max_health)

\* C2: between two initialize_world calls game_status only holds playing and
\* game_over, it changes only from playing to game_over, and once game_over
\* it stays game_over after every later command.
C2_StatusTransitions ==
    [][Called =>
          /\ game_status' \in {"playing", "game_over"}
          /\ game_status' # game_status =>
                 (game_status = "playing" /\ game_status' = "game_over")
          /\ game_status = "game_over" => game_status' = "game_over"]_vars

\* a command was processed after the game was over
C2_Witness ==
    /\ game_status = "game_over"
    /\ cmd.command \in {"look", "use", "take", "move"}

\* C3: a process_command call that returns success:false leaves the
\* GameState and every location's items and enemies as they were and
\* publishes no event.
C3_FailureChangesNothing ==
    [][(Called /\ ~result'.raised /\ ~result'.success) =>
          (UNCHANGED <<stateVars, worldVars>> /\ events' = <<>>)]_vars

\* a use of an item without effect was refused while the player carries it
C3_Witness ==
    /\ result = Result(FALSE, "cant_be_used")
    /\ \E k \in 1..Len(inventory) : inventory[k] = "gold_coin"

MoveDirection == cmd'.args[1]

MoveExits == world[current_location].exits

MoveTarget == MoveExits[MoveDirection]

\* the step processes a move command that names a direction
MoveCalled ==
    Called /\ initialized /\ cmd'.command = "move" /\ Len(cmd'.args) > 0

\* C5: for every direction d that is an exit of the current location to an
\* unlocked destination, move(d) succeeds, sets the current location to
\* exits[d], adds it to visited_locations (which is unchanged when it was
\* already visited) and publishes exactly one PLAYER_MOVED event.
C5_MoveSucceeds ==
    [][(/\ MoveCalled
        /\ MoveDirection \in DOMAIN MoveExits
        /\ ~world[MoveTarget].is_locked) =>
          /\ result' = Result(TRUE, "moved")
          /\ current_location' = MoveTarget
          /\ visited_locations' = visited_locations \cup {MoveTarget}
          /\ MoveTarget \in visited_locations =>
                 visited_locations' = visited_locations
          /\ events' = <<GameEvent("player_moved",
                            [location |-> MoveTarget,
                             direction |-> MoveDirection])>>]_vars

\* the player moved back to a location visited before
C5_Witness ==
    /\ cmd.command = "move" /\ result.success
    /\ current_location = "start"
    /\ visited_locations = {"start", "forest"}

\* C6: after initialize_world the current location is always a member of
\* visited_locations, and visited_locations holds only locations of the world.
C6_CurrentLocationVisited ==
    initialized =>
        /\ current_location \in visited_locations
        /\ visited_locations \subseteq LocationIds

\* a failed command after the player has been to three locations
C6_Witness ==
    /\ initialized
    /\ Cardinality(visited_locations) >= 3
    /\ result # NoResult /\ ~result.success

\* C7: move(d) fails exactly when the current location has no exit d or the
\* destination of that exit is locked; then the current location and
\* visited_locations are unchanged and no PLAYER_MOVED event is published.
C7_MoveFailsExactly ==
    [][MoveCalled =>
          /\ ~result'.raised
          /\ ~result'.success <=>
                 (\/ MoveDirection \notin DOMAIN MoveExits
                  \/ world[MoveTarget].is_locked)
          /\ ~result'.success =>
                 /\ current_location' = current_location
                 /\ visited_locations' = visited_locations
                 /\ events' = <<>>]_vars

\* a move in a valid direction failed for lack of an exit, away from start
C7_Witness ==
    /\ cmd.command = "move" /\ result = Result(FALSE, "no_exit")
    /\ current_location = "village"

\* the argument text of the item command just processed
ItemArg == ArgText[cmd'.raw]

\* the positions of the list ids whose item matches x
MatchingPositions(ids, x) == {k \in 1..Len(ids) : ItemMatches(x, ids[k])}

\* the least element of a non-empty set of positions
First(positions) == CHOOSE k \in positions : \A j \in positions : k <= j

\* C8: take(x) selects the first item, in the order of the current
\* location's items, whose name or id contains x; it removes that one
\* occurrence from the location (the others keep their order), appends the
\* item to the end of the inventory and publishes ITEM_PICKED_UP; no other
\* location and no player stat changes.
C8_TakeFirstMatch ==
    [][(Called /\ initialized /\ cmd'.command = "take" /\ Len(cmd'.args) > 0) =>
          LET items == loc_items[current_location]
              matching == MatchingPositions(items, ItemArg)
          IN  IF matching = {} THEN result' = Result(FALSE, "no_item_here")
              ELSE /\ result' = Result(TRUE, "picked_up")
                   /\ loc_items' =
                          [loc_items EXCEPT ![current_location] =
                               RemoveAt(items, First(matching))]
                   /\ inventory' = Append(inventory, items[First(matching)])
                   /\ events' =
                          <<GameEvent("item_picked_up",
                               [item |-> items_db[items[First(matching)]].name,
                                item_id |-> items[First(matching)]])>>
                   /\ UNCHANGED <<playerVars, current_location, game_status,
                                  visited_locations, loc_enemies>>]_vars

\* "take o" picked the sword, the first of the two matching items of start
C8_Witness ==
    /\ cmd.raw = "take o" /\ result.success
    /\ inventory = <<"iron_sword">>
    /\ loc_items["start"] = <<"wooden_shield">>

\* the argument texts of the take commands
TakeArgs == {ArgText[r] : r \in RoutedTo("take")}

\* C9 as stated: whenever take(x) succeeds, take(x) followed by drop(x) leaves
\* the location's item sequence and the inventory sequence as they were.
C9_RoundTripRestores ==
    initialized =>
        \A x \in TakeArgs :
            LET taken == take(loc_items[current_location], inventory, x)
                dropped == drop(taken.items, taken.inventory, x)
            IN  taken.success =>
                    /\ dropped.items = loc_items[current_location]
                    /\ dropped.inventory = inventory

\* C9 amended: whenever take(x) succeeds, the drop(x) that follows succeeds;
\* if no item already in the inventory matches x, the inventory is restored
\* and the taken item has moved to the end of the location's items; if an
\* inventory item matches x, the first such item is dropped in place of the
\* taken one, which stays at the end of the inventory.
C9_RoundTripAmended ==
    initialized =>
        \A x \in TakeArgs :
            LET items == loc_items[current_location]
                taken == take(items, inventory, x)
                dropped == drop(taken.items, taken.inventory, x)
                here == MatchingPositions(items, x)
                held == MatchingPositions(inventory, x)
            IN  taken.success =>
                    /\ dropped.success
                    /\ held = {} =>
                           /\ dropped.inventory = inventory
                           /\ dropped.items =
                                  Append(RemoveAt(items, First(here)),
                                         items[First(here)])
                    /\ held # {} =>
                           /\ dropped.inventory =
                                  Append(RemoveAt(inventory, First(held)),
                                         items[First(here)])
                           /\ dropped.items =
                                  Append(RemoveAt(items, First(here)),
                                         inventory[First(held)])

\* the player is where "take potion" succeeds and already holds a potion
C9_Witness ==
    /\ initialized
    /\ take(loc_items[current_location], inventory, "potion").success
    /\ MatchingPositions(inventory, "potion") # {}
    /\ inventory[First(MatchingPositions(inventory, "potion"))]
           # loc_items[current_location][
                 First(MatchingPositions(loc_items[current_location], "potion"))]

\* C10: drop(x) selects the first inventory entry whose name or id contains
\* x, removes exactly that entry, appends its id to the end of the current
\* location's items and publishes ITEM_DROPPED; without a match it fails and
\* changes nothing.
C10_DropFirstMatch ==
    [][(Called /\ initialized /\ cmd'.command = "drop" /\ Len(cmd'.args) > 0) =>
          LET matching == MatchingPositions(inventory, ItemArg)
          IN  IF matching = {}
              THEN /\ result' = Result(FALSE, "not_in_inventory")
                   /\ events' = <<>>
                   /\ UNCHANGED <<stateVars, worldVars>>
              ELSE /\ result' = Result(TRUE, "dropped")
                   /\ inventory' = RemoveAt(inventory, First(matching))
                   /\ loc_items' =
                          [loc_items EXCEPT ![current_location] =
                               Append(@, inventory[First(matching)])]
                   /\ events' =
                          <<GameEvent("item_dropped",
                               [item |-> items_db[inventory[First(matching)]].name,
                                item_id |-> inventory[First(matching)]])>>]_vars

\* "drop o" dropped the sword and left the shield, which matches as well
C10_Witness ==
    /\ cmd.raw = "drop o" /\ result.success
    /\ inventory = <<"wooden_shield">>
    /\ loc_items["start"] = <<"iron_sword">>

\* the step processes a use command that names an item
UseCalled ==
    Called /\ initialized /\ cmd'.command = "use" /\ Len(cmd'.args) > 0

\* the use command just processed matches an inventory entry
UseMatched == MatchingPositions(inventory, ItemArg) # {}

\* the inventory position, the item and the effect map the use command selects
UsedPosition == First(MatchingPositions(inventory, ItemArg))

UsedItem == inventory[UsedPosition]

UsedEffect == items_db[UsedItem].effect

\* the positions of the events of one type in a list of events
EventsOfType(evs, type) == {k \in 1..Len(evs) : evs[k].type = type}

\* C11: use(x) on an inventory item whose effect map is empty (gold_coin,
\* ruby, ancient_scroll, all of type treasure) returns success:false, keeps
\* the item in the inventory, changes no player stat and publishes no event.
C11_EmptyEffectRefused ==
    /\ \A id \in ItemIds :
           DOMAIN items_db[id].effect = {} <=>
               id \in {"gold_coin", "ruby", "ancient_scroll"}
    /\ [][(UseCalled /\ UseMatched /\ DOMAIN UsedEffect = {}) =>
             /\ items_db[UsedItem].item_type = "treasure"
             /\ result' = Result(FALSE, "cant_be_used")
             /\ inventory' = inventory
             /\ UNCHANGED <<playerVars, stateVars, worldVars>>
             /\ events' = <<>>]_vars

\* "use o" selected the gold coin, which is still the whole inventory
C11_Witness ==
    /\ cmd.raw = "use o" /\ result = Result(FALSE, "cant_be_used")
    /\ inventory = <<"gold_coin">>

\* C12: after a successful use(x) the matched inventory entry is removed (the
\* inventory is one shorter and the other entries keep their order) if and
\* only if the item's type is potion or treasure; for a weapon or a shield
\* the inventory is unchanged.
C12_ConsumedByType ==
    [][(UseCalled /\ result'.success) =>
          /\ UseMatched
          /\ IF items_db[UsedItem].item_type \in {"potion", "treasure"}
             THEN /\ inventory' = RemoveAt(inventory, UsedPosition)
                  /\ Len(inventory') = Len(inventory) - 1
             ELSE /\ items_db[UsedItem].item_type \in {"weapon", "shield"}
                  /\ inventory' = inventory]_vars

\* the potion behind the sword was used up and the sword is still there
C12_Witness ==
    /\ cmd.raw = "use potion" /\ result.success
    /\ inventory = <<"iron_sword">>

\* C13: a use of an item with a heal effect of magnitude h sets the health to
\* min(health + h, max_health), which never exceeds max_health, and the
\* amount published in PLAYER_HEALED is the new health minus the old health.
C13_HealClamped ==
    [][(UseCalled /\ UseMatched /\ "heal" \in DOMAIN UsedEffect) =>
          LET h == UsedEffect["heal"]
          IN  /\ health' = IF health + h < max_health THEN health + h
                           ELSE max_health
              /\ health' <= max_health
              /\ max_health' = max_health
              /\ EventsOfType(events', "player_healed") = {1}
              /\ events'[1] =
                     GameEvent("player_healed", [amount |-> health' - health])]_vars

\* a potion of 30 healed the 10 points lost to the wolf, up to max_health
C13_Witness ==
    /\ cmd.raw = "use potion" /\ result.success
    /\ health = 100 /\ max_health = 100
    /\ events[1] = GameEvent("player_healed", [amount |-> 10])

\* C14: the player's mana is at most 100 in every state; a use of an item with
\* a mana effect of magnitude m sets the mana to min(mana + m, 100), and no
\* command decreases the mana.
C14_ManaCapped ==
    /\ [](mana <= 100)
    /\ [][Called =>
             /\ mana' >= mana
             /\ (UseCalled /\ UseMatched /\ "mana" \in DOMAIN UsedEffect) =>
                    mana' = IF mana + UsedEffect["mana"] < 100
                            THEN mana + UsedEffect["mana"] ELSE 100]_vars

\* the mana potion of the village was used
C14_Witness ==
    /\ cmd.command = "use" /\ result.success
    /\ mana = 75 /\ inventory = <<>>

\* the step processes an attack command that names a target
AttackCalled ==
    Called /\ initialized /\ cmd'.command = "attack" /\ Len(cmd'.args) > 0

\* the positions of the enemies whose name contains x
EnemyPositions(enemies, x) ==
    {k \in 1..Len(enemies) : EnemyMatches(x, enemies[k].name)}

\* the enemies of the current location and the one the attack command selects
EnemiesHere == loc_enemies[current_location]

AttackMatched == EnemyPositions(EnemiesHere, ArgText[cmd'.raw]) # {}

TargetPosition == First(EnemyPositions(EnemiesHere, ArgText[cmd'.raw]))

Target == EnemiesHere[TargetPosition]

\* C15: in each attack round on a matched enemy the damage dealt is an
\* integer d with strength-2 <= d <= strength+3, the enemy's health decreases
\* by exactly d (the enemy leaves the list when that is 0 or below), and one
\* ENEMY_DAMAGED event carrying d is published before anything else.
C15_DamageDealt ==
    [][(AttackCalled /\ AttackMatched) =>
          \E d \in (strength - 2)..(strength + 3) :
              /\ strength = 10 => d \in 8..13
              /\ EventsOfType(events', "enemy_damaged") = {1}
              /\ events'[1] = GameEvent("enemy_damaged",
                                  [enemy |-> Target.name, damage |-> d])
              /\ loc_enemies' =
                     [loc_enemies EXCEPT ![current_location] =
                          IF Target.health - d > 0
                          THEN [EnemiesHere EXCEPT
                                    ![TargetPosition].health = @ - d]
                          ELSE RemoveAt(EnemiesHere, TargetPosition)]]_vars

\* after the strength potion (strength 15) a hit of 18 left the wolf at 12
C15_Witness ==
    /\ strength = 15
    /\ loc_enemies["forest"] = <<Enemy("wolf", "Wolf", 12, 10)>>
    /\ events[1] = GameEvent("enemy_damaged", [enemy |-> "Wolf", damage |-> 18])

\* the names of the enemies in a list of enemies
NamesOf(enemies) == {enemies[k].name : k \in 1..Len(enemies)}

\* the attack command being repeated matches enemy e, which is in the
\* current location
Facing(e) ==
    /\ cmd.command = "attack" /\ Len(cmd.args) > 0
    /\ EnemyMatches(ArgText[cmd.raw], e)
    /\ e \in NamesOf(loc_enemies[current_location])

\* enemy e has just been defeated: it is in no location's enemy list and the
\* last call published ENEMY_DEFEATED for it
JustDefeated(e) ==
    /\ \A l \in LocationIds : e \notin NamesOf(loc_enemies[l])
    /\ \E k \in 1..Len(events) :
           events[k].type = "enemy_defeated" /\ events[k].data.enemy = e

\* C16: from every state in which an enemy e is in the current location, if
\* the player keeps issuing attack(e), then after finitely many attacks e is
\* removed from the location's enemy list and ENEMY_DEFEATED is published for
\* it, whatever the random damage is and also when the player's health falls
\* to 0 or below on the way.
C16_CombatTerminates ==
    \A e \in EnemyNames : Facing(e) ~> JustDefeated(e)

\* the dragon fell to a player whose health was below 0 by then
C16_Witness ==
    /\ JustDefeated("Dragon")
    /\ health < 0 /\ game_status = "game_over"

\* the enemies named in the ENEMY_DEFEATED events of a list of events
DefeatedIn(evs) ==
    {evs[k].data.enemy : k \in EventsOfType(evs, "enemy_defeated")}

\* the names of the enemies of all locations
AllEnemies(enemies_of) == UNION {NamesOf(enemies_of[l]) : l \in LocationIds}

\* C17: between two initialize_world calls ENEMY_DEFEATED is published at most
\* once for each enemy instance: a call publishes it at most once, only for
\* an enemy that was in the current location, that enemy is in no location's
\* list afterwards, no command puts an enemy back into a list, and an attack
\* that names no enemy of the current location fails as not found.  (Every
\* enemy of the world has a name of its own, so a name stands for an
\* instance.)
C17_DefeatedOnce ==
    /\ \A l1, l2 \in LocationIds :
           \A k1 \in 1..Len(world[l1].enemies), k2 \in 1..Len(world[l2].enemies) :
               world[l1].enemies[k1].name = world[l2].enemies[k2].name =>
                   (l1 = l2 /\ k1 = k2)
    /\ [][Called =>
             /\ \A l \in LocationIds :
                    /\ NamesOf(loc_enemies'[l]) \subseteq NamesOf(loc_enemies[l])
                    /\ Len(loc_enemies'[l]) = Cardinality(NamesOf(loc_enemies'[l]))
             /\ Cardinality(EventsOfType(events', "enemy_defeated")) <= 1
             /\ DefeatedIn(events') =
                    AllEnemies(loc_enemies) \ AllEnemies(loc_enemies')
             /\ DefeatedIn(events') \subseteq NamesOf(EnemiesHere)
             /\ (AttackCalled /\ ~AttackMatched) =>
                    /\ result' = Result(FALSE, "no_enemy")
                    /\ events' = <<>>]_vars

\* the wolf is defeated and "attack wolf" is refused in the forest
C17_Witness ==
    /\ cmd.raw = "attack wolf" /\ result = Result(FALSE, "no_enemy")
    /\ current_location = "forest"
    /\ loc_enemies["forest"] = <<>>

\* C18: one attack round resolves one player hit and at most one
\* counter-attack: if the enemy's health after the hit is above 0, the
\* player's health decreases by exactly the enemy's damage and PLAYER_DAMAGED
\* is published; if the hit brings the enemy to 0 or below, the player's
\* health is not reduced and no PLAYER_DAMAGED is published.
C18_OneRound ==
    [][(AttackCalled /\ AttackMatched) =>
          /\ Cardinality(EventsOfType(events', "enemy_damaged")) = 1
          /\ events'[1].type = "enemy_damaged"
          /\ IF Target.health - events'[1].data.damage > 0
             THEN /\ health' = health - Target.damage
                  /\ events' =
                         <<events'[1],
                           GameEvent("player_damaged",
                               [damage |-> Target.damage,
                                enemy |-> Target.name])>>
             ELSE /\ health' >= health
                  /\ level' = level => health' = health
                  /\ EventsOfType(events', "player_damaged") = {}]_vars

\* the third hit defeated the wolf after two counter-attacks of 10
C18_Witness ==
    /\ cmd.command = "attack" /\ DefeatedIn(events) = {"Wolf"}
    /\ health = 80

\* C19: experience changes only when an attack defeats an enemy, by 15 to 30;
\* in every state of an initialized game level = floor(experience/100) + 1;
\* a defeat that raises floor(experience/100) raises the level by exactly 1,
\* max_health by 10 and strength by 2 and sets the health to the new
\* max_health; a defeat that does not leaves level, max_health and health
\* unchanged.
C19_Leveling ==
    /\ [](initialized => level = (experience \div 100) + 1)
    /\ [][Called =>
             /\ experience' # experience =>
                    (AttackCalled /\ AttackMatched /\ DefeatedIn(events') # {})
             /\ DefeatedIn(events') # {} =>
                    /\ experience' - experience \in 15..30
                    /\ IF experience' \div 100 > experience \div 100
                       THEN /\ level' = level + 1
                            /\ max_health' = max_health + 10
                            /\ strength' = strength + 2
                            /\ health' = max_health'
                       ELSE /\ level' = level
                            /\ max_health' = max_health
                            /\ health' = health
                            /\ strength' = strength]_vars

\* the defeat of the dragon took the experience from 85 to 100: level 2
C19_Witness ==
    /\ experience = 100 /\ level = 2
    /\ max_health = 110 /\ health = 110 /\ strength = 12
    /\ DefeatedIn(events) = {"Dragon"}

\* C20: every state of an initialized game in which the player's health is 0
\* or below has game_status = game_over, and game_status becomes game_over
\* only in an attack round whose counter-attack leaves the health at 0 or
\* below.
C20_GameOverAtZero ==
    /\ []((initialized /\ health <= 0) => game_status = "game_over")
    /\ [][(game_status' = "game_over" /\ game_status # "game_over") =>
             /\ AttackCalled /\ AttackMatched
             /\ EventsOfType(events', "player_damaged") # {}
             /\ health' = health - Target.damage
             /\ health' <= 0]_vars

\* the dragon's fourth counter-attack left the player at exactly 0
C20_Witness ==
    /\ health = 0 /\ game_status = "game_over"
    /\ cmd.raw = "attack dragon"
    /\ result.success /\ result.message = "enemy_survives"

\* what is left of the target's health after the hit the step's
\* ENEMY_DAMAGED event reports
Remaining == Target.health - events'[1].data.damage

\* C21: the enemy_health a successful attack returns is the enemy's
\* remaining health when the enemy survives and 0 when the attack defeats
\* it, whatever the damage, also when it exceeds the enemy's health.
C21_EnemyHealthReturned ==
    [][(AttackCalled /\ AttackMatched /\ ~result'.raised /\ result'.success) =>
          result'.data.enemy_health =
              IF Remaining > 0 THEN Remaining ELSE 0]_vars

\* the types of a sequence of events, in order
TypesOf(evs) == [k \in 1..Len(evs) |-> evs[k].type]

ReadCommands == {"look", "inventory", "stats", "help"}

\* the step processes a read command that validate_command accepted
ReadCalled ==
    /\ Called /\ initialized
    /\ cmd'.command \in ReadCommands
    /\ Validated[cmd'.raw] = "ok"

\* C23: look, inventory, stats and help return success in every state of an
\* initialized game, game_over included, leave the GameState and every
\* location's items and enemies unchanged and publish no event.
C23_PureReads ==
    [][ReadCalled =>
          /\ ~result'.raised /\ result'.success
          /\ events' = <<>>
          /\ UNCHANGED <<stateVars, worldVars>>]_vars

\* the player's statistics were read after the dragon ended the game
C23_Witness ==
    /\ game_status = "game_over" /\ health <= 0
    /\ cmd.command = "stats" /\ result = Result(TRUE, "stats")
    /\ events = <<>>

\* the last command was a save that reported success and the step processes
\* a load command
LoadAfterSave ==
    /\ Called /\ initialized
    /\ cmd.command = "save" /\ ~result.raised /\ result.success
    /\ cmd'.command = "load" /\ Validated[cmd'.raw] = "ok"

\* C24: save hands the GameState to the persistence collaborator and load
\* obtains it from there: a load issued after a save that reported success
\* finds that save (it does not report that no saved game exists) and the
\* GameState after the load equals the GameState at the time of the save.
\* Stated for the load that directly follows the save.
C24_LoadFindsSave ==
    [][LoadAfterSave =>
          /\ ~result'.raised /\ result'.success
          /\ result'.message # "no_saved_games"
          /\ UNCHANGED stateVars]_vars

\* the registry of command names with the number of arguments each expects
\* and the name of its argument
Arity ==
    [move |-> 1, look |-> 0, take |-> 1, drop |-> 1, use |-> 1,
     inventory |-> 0, i |-> 0, stats |-> 0, s |-> 0, attack |-> 1,
     help |-> 0, save |-> 0, load |-> 0]

SlotName ==
    [move |-> "direction", take |-> "item_name", drop |-> "item_name",
     use |-> "item_name", attack |-> "target"]

\* the errors validate_command reports
ValidationErrors ==
    {"unknown_command", "empty_command", "invalid_direction",
     "takes_no_arguments"}
    \cup {"missing_argument:" \o SlotName[c] : c \in DOMAIN SlotName}

\* the rejection the four rules give for a parsed command, in their order;
\* "ok" when none applies
Rejection(parsed) ==
    LET name == parsed.command
        n == Len(parsed.args)
    IN  IF name # "" /\ name \notin DOMAIN Arity THEN "unknown_command"
        ELSE IF name = "" THEN "empty_command"
        ELSE IF n < Arity[name] THEN "missing_argument:" \o SlotName[name]
        ELSE IF name = "move"
                /\ parsed.args[1] \notin
                       {"north", "south", "east", "west", "up", "down"}
        THEN "invalid_direction"
        ELSE "ok"

\* C25: validate_command rejects a parsed command exactly when its name is
\* non-empty and not in the registry (unknown command), else when the name
\* is empty (empty command), else when it has fewer arguments than the
\* command's arity (missing argument, naming the slot at index len(args):
\* move without argument misses its direction), else when it is a move whose
\* first argument is not one of the six directions (invalid direction);
\* every other command is accepted, also with surplus arguments.
C25_ValidationOrder ==
    [][(Called /\ initialized) =>
          IF Rejection(cmd') = "ok"
          THEN result'.raised \/ result'.message \notin ValidationErrors
          ELSE result' = Result(FALSE, Rejection(cmd'))]_vars

\* move without a direction was rejected for the missing argument
C25_Witness ==
    /\ initialized
    /\ cmd.raw = "move" /\ cmd.command = "move" /\ cmd.args = <<>>
    /\ result = Result(FALSE, "missing_argument:direction")

\* the step processes raw input r and gives what the read command named
\* name gives: its parsed name, its result, no event, no change
GivesRead(r, name) ==
    (Called /\ initialized /\ cmd'.raw = r) =>
        /\ cmd'.command = name
        /\ result' = Result(TRUE, name)
        /\ events' = <<>>
        /\ UNCHANGED <<stateVars, worldVars>>

\* C26: every command name that parse produces, after the aliases i and s
\* are resolved, and validate_command accepts has a handler, so that
\* process_command never returns the not-implemented result; the inputs i
\* and s give the same result and the same state as inventory and stats.
C26_EveryNameHandled ==
    [][/\ (Called /\ initialized) =>
              (result'.raised \/ result'.message # "not_implemented")
       /\ GivesRead("i", "inventory") /\ GivesRead("inventory", "inventory")
       /\ GivesRead("s", "stats") /\ GivesRead("stats", "stats")]_vars

\* the input s was answered by the handler of stats
C26_Witness ==
    /\ initialized
    /\ cmd.raw = "s" /\ cmd.command = "stats"
    /\ result = Result(TRUE, "stats")

\* the subscriber list of event type t in the dictionary d
ListOf(d, t) == IF t \in DOMAIN d THEN d[t] ELSE <<>>

\* the subscriber lists of the event types other than t are as before
OtherListsKept(t) ==
    \A u \in (DOMAIN subscribers \cup DOMAIN subscribers') \ {t} :
        ListOf(subscribers', u) = ListOf(subscribers, u)

\* the step is a call op(t, cb) of the event manager
BusCalled(op, t, cb) ==
    /\ bus_call'.op = op
    /\ bus_call'.event_type = t
    /\ bus_call'.callback = cb

\* C27: after any sequence of subscribe, unsubscribe and clear_subscribers
\* calls each handler appears at most once in the subscriber list of an
\* event type; subscribe returns true exactly when the handler was not yet
\* subscribed to the type, and otherwise returns false and leaves the list
\* unchanged; unsubscribe returns true exactly when the handler was
\* subscribed, and removes it, and otherwise returns false and changes
\* nothing.
C27_SubscribeOnce ==
    /\ [](\A t \in DOMAIN subscribers :
             \A j, k \in 1..Len(subscribers[t]) :
                 subscribers[t][j] = subscribers[t][k] => j = k)
    /\ [][\A t \in BusTypes, cb \in BusCallbacks :
             LET list == ListOf(subscribers, t)
                 was == \E k \in 1..Len(list) : list[k] = cb
             IN  /\ BusCalled("subscribe", t, cb) =>
                        /\ bus_call'.returned = ~was
                        /\ ListOf(subscribers', t) =
                               IF was THEN list ELSE Append(list, cb)
                        /\ OtherListsKept(t)
                 /\ BusCalled("unsubscribe", t, cb) =>
                        /\ bus_call'.returned = was
                        /\ ListOf(subscribers', t) =
                               SelectSeq(list, LAMBDA c : c # cb)
                        /\ ~was => subscribers' = subscribers
                        /\ OtherListsKept(t)]_vars

\* the observer subscribed a second time to PLAYER_MOVED and was refused:
\* the list still holds it once, after the engine's own callback
C27_Witness ==
    /\ bus_call = BusCall("subscribe", "player_moved", "listener", FALSE)
    /\ ListOf(subscribers, "player_moved") =
           <<"_on_player_moved", "listener">>

\* the step publishes exactly one event: a publish call of an observer, or
\* a command whose handler publishes once
PublishedOne == Len(events') = 1 /\ steps_left' # steps_left

\* C28: publish(t, data) invokes each handler currently subscribed to t
\* exactly once, in the order in which the handlers were subscribed (a
\* handler that was unsubscribed and subscribed again runs last), invokes no
\* handler that is subscribed only to other types, and returns the event
\* once all invocations are complete.  The order of subscription is the
\* order of the list: a new subscriber is put behind all others and a
\* removal keeps the order of the others.
C28_PublishInOrder ==
    [][/\ PublishedOne =>
              /\ invoked' = ListOf(subscribers, events'[1].type)
              /\ UNCHANGED subscribers
       /\ \A t \in BusTypes :
              (bus_call'.op = "publish" /\ bus_call'.event_type = t) =>
                  /\ events' = <<GameEvent(t, [location |-> "forest"])>>
                  /\ bus_call'.returned = events'[1]
       /\ \A t \in BusTypes, cb \in BusCallbacks :
              LET list == ListOf(subscribers, t)
              IN  /\ (BusCalled("subscribe", t, cb) /\ bus_call'.returned) =>
                         ListOf(subscribers', t) = Append(list, cb)
                  /\ BusCalled("unsubscribe", t, cb) =>
                         ListOf(subscribers', t) =
                             SelectSeq(list, LAMBDA c : c # cb)]_vars

\* the engine's callback for PLAYER_MOVED was unsubscribed and subscribed
\* again after the observer had subscribed: a publish invoked the observer
\* first and the engine's callback last, and nothing for the other type
C28_Witness ==
    /\ bus_call.op = "publish" /\ bus_call.event_type = "player_moved"
    /\ bus_call.returned = GameEvent("player_moved", [location |-> "forest"])
    /\ invoked = <<"listener", "_on_player_moved">>
    /\ ListOf(subscribers, "item_picked_up") = <<"_on_item_picked_up">>

\* the step publishes one event to a list in which a failing callback is
\* subscribed
PublishedToFaulty ==
    /\ PublishedOne
    /\ InList("faulty_listener", ListOf(subscribers, events'[1].type))

\* C29: when a handler fails during publish, every handler subscribed after
\* it is still invoked, the failure does not reach the caller of publish,
\* publish returns the constructed event, and the command that published
\* the event completes with the result and the state it has when no handler
\* fails: a move arrives, a take picks the item up.
C29_FailureIsolated ==
    [][PublishedToFaulty =>
          LET list == ListOf(subscribers, events'[1].type)
              k == IndexOf("faulty_listener", list)
          IN  /\ Len(invoked') = Len(list)
              /\ \A j \in k..Len(list) : invoked'[j] = list[j]
              /\ bus_call'.op = "publish" =>
                     bus_call'.returned = events'[1]
              /\ Called =>
                     /\ ~result'.raised /\ result'.success
                     /\ UNCHANGED <<playerVars, game_status, loc_enemies>>
              /\ MoveCalled =>
                     /\ result' = Result(TRUE, "moved")
                     /\ current_location' = MoveTarget
                     /\ visited_locations' =
                            visited_locations \cup {MoveTarget}
                     /\ UNCHANGED <<inventory, loc_items>>
              /\ (Called /\ cmd'.command = "take") =>
                     /\ result' = Result(TRUE, "picked_up")
                     /\ inventory' =
                            Append(inventory, events'[1].data.item_id)
                     /\ Len(loc_items'[current_location]) =
                            Len(loc_items[current_location]) - 1
                     /\ UNCHANGED <<current_location, visited_locations>>
         ]_vars

\* the player moved while a failing observer was subscribed to PLAYER_MOVED
\* between the engine's callback and another observer: all three were
\* invoked and the move arrived
C29_Witness ==
    /\ cmd.raw = "move north" /\ result = Result(TRUE, "moved")
    /\ current_location = "forest"
    /\ ListOf(subscribers, "player_moved") =
           <<"_on_player_moved", "faulty_listener", "listener">>
    /\ invoked = <<"_on_player_moved", "faulty_listener", "listener">>

JustInitialized ==
    initialized /\ events = <<GameEvent("game_started", [player |-> "Hero"])>>

\* C31: initialize_world after any sequence of commands yields the GameState
\* and the world of the first initialize_world: health 100, max_health 100,
\* mana 50, strength 10, level 1, experience 0, location start, empty
\* inventory, status playing, visited {start}, every location's items and
\* enemies as built; so that a second call in a row changes nothing.
C31_InitializeRestores ==
    JustInitialized =>
        /\ health = 100 /\ max_health = 100 /\ mana = 50 /\ strength = 10
        /\ level = 1 /\ experience = 0
        /\ current_location = "start" /\ inventory = <<>>
        /\ game_status = "playing" /\ visited_locations = {"start"}
        /\ \A l \in LocationIds :
               /\ loc_items[l] = WorldDefinition[l].items
               /\ loc_enemies[l] = WorldDefinition[l].enemies
        /\ loc_enemies["treasure_room"] = <<Enemy("dragon", "Dragon", 100, 25)>>
        /\ cmd = NoCommand /\ result = NoResult

\* a new game was started after the session in which the dragon had been
\* fought and the player defeated
C31_Witness ==
    /\ JustInitialized
    /\ steps_left < MaxStandSteps
    /\ health = 100 /\ game_status = "playing"
    /\ loc_enemies["forest"] = <<Enemy("wolf", "Wolf", 30, 10)>>

\* the commands that act on the game
ActingCommands == {"move", "take", "drop", "use", "attack"}

\* the step processes an acting command that validate_command accepted
ActingCalled ==
    /\ Called /\ initialized
    /\ cmd'.command \in ActingCommands
    /\ Validated[cmd'.raw] = "ok"

\* C32: every invocation of move, take, drop, use and attack either reports
\* success and changes the GameState or the world, or reports failure and
\* changes nothing; in particular a use that returns success applies an
\* effect to the player or consumes the item.
C32_SuccessChangesState ==
    [][ActingCalled =>
          /\ ~result'.raised
          /\ result'.success => <<stateVars, worldVars>>' # <<stateVars, worldVars>>
          /\ ~result'.success => UNCHANGED <<stateVars, worldVars>>]_vars

\* the step uses an item whose effect has a strength_boost
BoostUsed ==
    /\ UseCalled /\ UseMatched
    /\ "strength_boost" \in DOMAIN UsedEffect

\* C33: the player's strength never decreases over any sequence of
\* commands: a use of an item with a strength_boost adds its magnitude, a
\* level-up adds 2, no other command changes the strength, and no later
\* command takes an increase back.
C33_StrengthNeverDecreases ==
    [][Called =>
          /\ strength' >= strength
          /\ strength' =
                 strength
                 + (IF BoostUsed THEN UsedEffect["strength_boost"] ELSE 0)
                 + (IF level' > level THEN 2 ELSE 0)]_vars

\* the strength potion was used in the forest and the player walked back:
\* the strength is still 15
C33_Witness ==
    /\ strength = 15
    /\ cmd.command = "move" /\ result.success
    /\ current_location = "start"
    /\ "strength_potion" \notin {inventory[k] : k \in 1..Len(inventory)}

\* the callbacks the publish call of this step invoked, in order: the loop
\* starts on the dictionary as it was before the call
Notified == Invocations(subscribers, events')

\* the number of times the callback cb occurs in the sequence seq
Occurrences(cb, seq) == Cardinality({k \in 1..Len(seq) : seq[k] = cb})

\* the handler at position p of the list L a publish starts on is
\* unsubscribed before its turn: it is listener and remover stands before it
UnsubscribedBeforeTurn(L, p) ==
    L[p] = "listener" /\ \E q \in 1..(p - 1) : L[q] = "remover"

\* C34: when handlers unsubscribe themselves or another handler, or
\* subscribe a new one, while publish invokes them, every handler that was
\* subscribed to the type when publish began and was not unsubscribed
\* before its turn is invoked exactly once in that publish
C34_NoHandlerSkipped ==
    [][PublishedOne =>
         LET L == ListOf(subscribers, bus_call'.event_type)
         IN  \A p \in 1..Len(L) :
                 ~UnsubscribedBeforeTurn(L, p)
                     => Occurrences(L[p], Notified) = 1]_vars

\* the copies of the item id in the inventory inv and in the item lists li
\* of all locations
Copies(i, inv, li) ==
    Occurrences(i, inv)
    + Cardinality({p \in UNION {{<<l, k>> : k \in 1..Len(li[l])} :
                                     l \in DOMAIN li} :
                      li[p[1]][p[2]] = i})

\* C35: no command increases the number of copies of an item id held in
\* the locations and the inventory together; take, drop, move and attack
\* keep it, and it decreases only for the potion or treasure that a
\* successful use consumes, by exactly one
C35_CopiesNeverIncrease ==
    [][Called =>
         \* a step that leaves every list alone keeps every number
         \/ UNCHANGED <<inventory, loc_items>>
         \/ \A i \in ItemIds :
             LET before == Copies(i, inventory, loc_items)
                 after == Copies(i, inventory', loc_items')
             IN  /\ after <= before
                 /\ cmd'.command \in {"take", "drop", "move", "attack"}
                        => after = before
                 /\ after < before
                        => /\ UseCalled /\ UseMatched
                           /\ ~result'.raised /\ result'.success
                           /\ i = UsedItem
                           /\ items_db[i].item_type \in {"potion", "treasure"}
                           /\ after = before - 1]_vars

C35_Witness ==
    /\ cmd.command = "use" /\ ~result.raised /\ result.success
    /\ \E i \in ItemIds :
           /\ items_db[i].item_type = "potion"
           /\ Copies(i, inventory, loc_items) = 0
           /\ \E l \in LocationIds : Occurrences(i, WorldDefinition[l].items) > 0

\* C36: once game_status is game_over the player's health is 0 or below in
\* every later state of the session: no healing item and no level-up raises
\* the health of a defeated player above 0
C36_DefeatedStaysDown == game_status = "game_over" => health <= 0

\* the direction that leads back
Opposite ==
    [north |-> "south", south |-> "north", east |-> "west", west |-> "east",
     up |-> "down", down |-> "up"]

\* every exit of the world has the opposite exit back
ExitsPaired ==
    \A L \in LocationIds :
        \A d \in DOMAIN world[L].exits :
            LET M == world[L].exits[d]
            IN  /\ M \in LocationIds
                /\ Opposite[d] \in DOMAIN world[M].exits
                /\ world[M].exits[Opposite[d]] = L

\* the locations that the exits lead to from the locations of the set
RECURSIVE ReachableFrom(_)
ReachableFrom(locations) ==
    LET further ==
            locations \cup
            {world[l].exits[d] : <<l, d>> \in
                UNION {{<<l, d>> : d \in DOMAIN world[l].exits} :
                          l \in locations \cap LocationIds}}
    IN  IF further = locations THEN locations ELSE ReachableFrom(further)

\* C37: in the built world every exit has the opposite exit back on its
\* target, so that after a successful move in direction d the move in the
\* opposite direction succeeds and ends where the first one started; every
\* location is reachable from start and start from every location
C37_ExitsPaired ==
    /\ [](/\ ExitsPaired
          /\ Cardinality(LocationIds) = 6
          /\ ReachableFrom({"start"}) = LocationIds
          /\ \A l \in LocationIds : "start" \in ReachableFrom({l}))
    /\ [][MoveCalled /\ ~result'.raised /\ result'.success =>
            LET back == move(current_location', visited_locations',
                             Opposite[MoveDirection])
            IN  /\ back.success
                /\ back.location = current_location]_vars

\* the player went north to the forest and came back south
C37_Witness ==
    /\ cmd.command = "move" /\ cmd.args = <<"south">>
    /\ ~result.raised /\ result.success
    /\ current_location = "start"
    /\ visited_locations = {"start", "forest"}

\* C38: load_game(n) returns a state equal to the current state at the
\* time of the last save_game(n) (location, inventory, status, visited
\* locations), whatever was added to or removed from the inventory and
\* whatever location or status was set between the save and the load or
\* after an earlier load
C38_LoadReturnsSaved ==
    [][repo_call'.op = "load_game" /\ repo_call'.arg \in DOMAIN saved_values
          => repo_call'.returned = saved_values[repo_call'.arg]]_vars

\* the repository call of this step was op on a stored player
PlayerCalled(op) ==
    /\ repo_call'.op = op
    /\ steps_left' # steps_left
    /\ repo_call'.arg[1] \in DOMAIN storage

\* C39: over the take_damage, heal and add_experience calls on players that
\* start with a health from 0 to max_health, the health of every stored
\* player stays within 0 and max_health; take_damage floors the health at 0
\* and heal caps it at max_health
C39_HealthWithinBounds ==
    /\ [](\A id \in DOMAIN storage :
              storage[id].health >= 0 /\ storage[id].health <= ClassMaxHealth)
    /\ [][PlayerCalled("take_damage") =>
            LET id == repo_call'.arg[1]
            IN  storage'[id].health =
                    Max(0, storage[id].health - repo_call'.arg[2])]_vars
    /\ [][PlayerCalled("heal") =>
            LET id == repo_call'.arg[1]
            IN  storage'[id].health =
                    Min(storage[id].health + repo_call'.arg[2],
                        ClassMaxHealth)]_vars

\* C40: create_player stores the new player under an id that is not in the
\* storage at that moment: no stored player is replaced and the number of
\* stored players grows by one
C40_CreateAddsPlayer ==
    [][repo_call'.op = "create_player" /\ steps_left' # steps_left =>
          /\ repo_call'.returned \notin DOMAIN storage
          /\ \A id \in DOMAIN storage :
                 id \in DOMAIN storage' /\ storage'[id] = storage[id]
          /\ Cardinality(DOMAIN storage') =
                 Cardinality(DOMAIN storage) + 1]_vars

====
